---------------------------- MODULE Spec2Model ----------------------------
(***************************************************************************)
(* State-machine model of the PDF annotation editor: the PDFEditor         *)
(* component (annotation store, tool, pending stamp, page and zoom) and    *)
(* the PDFViewer component (pointer gestures and inline text editing).     *)
(*                                                                         *)
(* Numbers.  JavaScript numbers are modelled as exact rationals.  A        *)
(* document-space length is an integer count of 1/Den document units, so   *)
(* that the division by the zoom scale in getRelativePosition is exact for *)
(* every scale the toolbar can set.  The zoom scale is an integer count of *)
(* quarters (scale 1 is 4, scale 0.5 is 2, scale 3 is 12).  Where the      *)
(* rounding of a quotient matters (the way back from a converted position  *)
(* to the pointer), the binary64 value of the quotient is computed from    *)
(* the exact one by Float64.                                               *)
(*                                                                         *)
(* Optional values (T | null) are sequences of length at most one:         *)
(* << >> is null and <<v>> is v.  A null identifier is NoId.               *)
(***************************************************************************)
EXTENDS Integers, Sequences, FiniteSets, TLC

VARIABLES
    \* PDFEditor state (useState hooks)
    numPages, currentPage, scale, activeTool, showSignatureModal,
    signatureToPlace, isProcessing, annotations,
    \* PDFViewer state (useState hooks)
    editingTextId, highlightStart, tempHighlight, draggingId, dragOffset,
    resizing,
    \* the calls of handleDownload so far, the files they have handed to the
    \* browser and the notifications they have shown
    downloads, delivered, toasts,
    \* SignatureCanvas: whether an instance is on screen, its state (useState
    \* hooks), the pending setTimeout(setupCanvas, 50), the canvas element
    \* (size and painted marks) and the points ref
    mounted, isDrawing, hasContent, canvasReady, selectedColor, signatureText,
    activeTab, setupTimer, canvas, points,
    \* the rasters handleSave has handed to onSave so far
    stamps,
    \* tokens generateId has handed out so far
    nextId,
    \* presses that started a drag or a resize so far (bounds the run)
    presses

exportVars == <<isProcessing, downloads, delivered, toasts>>
canvasVars == <<mounted, isDrawing, hasContent, canvasReady, selectedColor,
                signatureText, activeTab, setupTimer, canvas, points, stamps>>
editorVars == <<numPages, currentPage, scale, activeTool, showSignatureModal,
                signatureToPlace, exportVars, canvasVars, annotations>>
viewerVars == <<editingTextId, highlightStart, tempHighlight, draggingId,
                dragOffset, resizing>>
vars == <<editorVars, viewerVars, nextId, presses>>

---------------------------------------------------------------------------
(* Bounds of the model *)

\* annotations created in one run (generateId calls)
MaxIds == 2
\* presses that start a drag or a resize in one run
MaxPresses == 1
\* characters in a text annotation's content
MaxTextLen == 1
\* pages of the loaded document
MaxPages == 2
\* zoom steps away from the initial scale in the page-view runs
MaxZoomSteps == 1
\* annotations created in one page-view run
MaxViewIds == 1
\* presses that start a drag or a resize in one gesture run
MaxGesturePresses == 2
\* annotations created in one gesture run
MaxGestureIds == 1
\* annotations in the store in one identifier run
MaxIdsStore == 2
\* annotations created in one zoom run
MaxZoomIds == 1

---------------------------------------------------------------------------
(* Program constants *)

\* document units are counted in 1/Den: every scale k/4, k in 2..12,
\* divides 4 * Den
Den == 2 * 3 * 3 * 5 * 7 * 11

DefaultSigWidth == 150
DefaultSigHeight == 60
MinSigWidth == 50
MinSigHeight == 30
MinHighlightWidth == 10
MinHighlightHeight == 5
DefaultFontSize == 16
DefaultTextColor == "#1a1a2e"
\* zoom, in quarters
InitialScale == 4
ZoomStep == 1
ZoomMin == 2
ZoomMax == 12

Tools == {"select", "sign", "text", "highlight"}
ResizeHandles == {"nw", "ne", "sw", "se"}

NoId == 0
NoStamp == "null"
\* encoded rasters the signature modal can hand to onSave
DataUrls == {"pngA", "pngB"}

\* characters of a text input's value: a blank and a letter
Chars == {" ", "a"}

RECURSIVE SeqsUpTo(_, _)
SeqsUpTo(S, n) ==
    IF n = 0 THEN {<< >>}
    ELSE LET shorter == SeqsUpTo(S, n - 1)
         IN  shorter \cup {Append(s, c) : s \in shorter, c \in S}

InputValues == SeqsUpTo(Chars, MaxTextLen)

\* String.prototype.trim: strip the white space at both ends
RECURSIVE trim(_)
trim(s) ==
    IF s = << >> THEN s
    ELSE IF Head(s) = " " THEN trim(Tail(s))
    ELSE IF s[Len(s)] = " " THEN trim(SubSeq(s, 1, Len(s) - 1))
    ELSE s

Max(a, b) == IF a >= b THEN a ELSE b
Min(a, b) == IF a <= b THEN a ELSE b
Abs(a) == IF a >= 0 THEN a ELSE -a

---------------------------------------------------------------------------
(* Pointer events *)

\* bounding rectangle of the page container (rect.left, rect.top)
ContainerRect == [left |-> 8, top |-> 8]

\* a mouse event: client coordinates
MouseEvent(cx, cy) == [clientX |-> cx, clientY |-> cy]

\* pointer positions of the interaction runs
Points == {MouseEvent(8, 8), MouseEvent(19, 14)}

\* getRelativePosition without the division by the scale
getRelativePosition_unscaled(e, rect, sc) ==
    [x |-> (e.clientX - rect.left) * Den,
     y |-> (e.clientY - rect.top) * Den]

\* (e.clientX - rect.left) / scale, (e.clientY - rect.top) / scale
getRelativePosition(e, rect, sc) ==
    [x |-> ((e.clientX - rect.left) * 4 * Den) \div sc,
     y |-> ((e.clientY - rect.top) * 4 * Den) \div sc]

Pos(e) == getRelativePosition(e, ContainerRect, scale)

---------------------------------------------------------------------------
(* Annotation store: the setAnnotations updaters of PDFEditor *)

findIndex(s, id) ==
    IF \E i \in 1..Len(s) : s[i].id = id
    THEN CHOOSE i \in 1..Len(s) : s[i].id = id /\ \A j \in 1..(i - 1) : s[j].id # id
    ELSE 0

hasId(s, id) == \E i \in 1..Len(s) : s[i].id = id

\* generateId handing out the first token on every call
generateId_constant == Min(nextId, 1)

\* generateId(): the next token of the random source.  The source hands
\* out a token it has not handed out before, except in the identifier runs
\* (SpecIds), where it may hand out any token
generateId == nextId

\* the merge applied to every element, whatever its id
mergeWhere_unkeyed(s, id, updates) ==
    [i \in 1..Len(s) |->
        [f \in DOMAIN s[i] |->
            IF f \in DOMAIN updates THEN updates[f] ELSE s[i][f]]]

\* { ...s, ...updates } for every element whose id matches
mergeWhere(s, id, updates) ==
    [i \in 1..Len(s) |->
        IF s[i].id = id
        THEN [f \in DOMAIN s[i] |->
                 IF f \in DOMAIN updates THEN updates[f] ELSE s[i][f]]
        ELSE s[i]]

removeWhere(s, id) ==
    LET keep(a) == a.id # id IN SelectSeq(s, keep)

AddSignatureTo(store, sig) ==
    [store EXCEPT !.signatures =
        Append(@, [id |-> generateId, x |-> sig.x, y |-> sig.y,
                   width |-> sig.width, height |-> sig.height,
                   dataUrl |-> sig.dataUrl, page |-> sig.page])]

\* handleAddText filing every text under page 1
AddTextTo_onFirstPage(store, t) ==
    [store EXCEPT !.texts =
        Append(@, [id |-> generateId, x |-> t.x, y |-> t.y, text |-> t.text,
                   fontSize |-> t.fontSize, color |-> t.color,
                   page |-> 1])]

AddTextTo(store, t) ==
    [store EXCEPT !.texts =
        Append(@, [id |-> generateId, x |-> t.x, y |-> t.y, text |-> t.text,
                   fontSize |-> t.fontSize, color |-> t.color,
                   page |-> t.page])]

AddHighlightTo(store, h) ==
    [store EXCEPT !.highlights =
        Append(@, [id |-> generateId, x |-> h.x, y |-> h.y,
                   width |-> h.width, height |-> h.height, page |-> h.page])]

UpdateSignatureIn(store, id, updates) ==
    [store EXCEPT !.signatures = mergeWhere(@, id, updates)]

UpdateTextIn(store, id, updates) ==
    [store EXCEPT !.texts = mergeWhere(@, id, updates)]

DeleteSignatureIn(store, id) ==
    [store EXCEPT !.signatures = removeWhere(@, id)]

DeleteTextIn(store, id) ==
    [store EXCEPT !.texts = removeWhere(@, id)]

DeleteHighlightIn(store, id) ==
    [store EXCEPT !.highlights = removeWhere(@, id)]

EmptyStore == [signatures |-> << >>, texts |-> << >>, highlights |-> << >>]

\* the annotations the viewer renders: those of the current page
rendered(s) == {i \in 1..Len(s) : s[i].page = currentPage}

CanGenerate == nextId <= MaxIds

---------------------------------------------------------------------------
(* Initial state: the useState initial values *)

None == << >>
Some(v) == <<v>>

\* COLORS of the colour picker; the first one is the initial selection
Colors == {"#1a1a2e", "#2563eb", "#dc2626", "#16a34a"}
InitialColor == "#1a1a2e"

\* a canvas element before setupCanvas has sized it (300 x 150 is the size
\* of a canvas element without width and height attributes), in a container
\* of the given size
newCanvas(rect) == [width |-> 300, height |-> 150, rect |-> rect, marks |-> {}]

\* no SignatureCanvas on screen: the useState initial values
NoCanvas ==
    /\ mounted = FALSE
    /\ isDrawing = FALSE
    /\ hasContent = FALSE
    /\ canvasReady = FALSE
    /\ selectedColor = InitialColor
    /\ signatureText = << >>
    /\ activeTab = "draw"
    /\ setupTimer = FALSE
    /\ canvas = newCanvas([width |-> 0, height |-> 0])
    /\ points = << >>
    /\ stamps = << >>

Init ==
    /\ numPages = 0
    /\ currentPage = 1
    /\ scale = InitialScale
    /\ activeTool = "select"
    /\ showSignatureModal = FALSE
    /\ signatureToPlace = NoStamp
    /\ isProcessing = FALSE
    /\ downloads = << >>
    /\ delivered = << >>
    /\ toasts = << >>
    /\ NoCanvas
    /\ annotations = EmptyStore
    /\ editingTextId = NoId
    /\ highlightStart = None
    /\ tempHighlight = None
    /\ draggingId = NoId
    /\ dragOffset = [x |-> 0, y |-> 0]
    /\ resizing = None
    /\ nextId = 1
    /\ presses = 0

---------------------------------------------------------------------------
(* PDFEditor handlers *)

\* the signature modal is a full-window overlay: while it is shown no
\* pointer event reaches the page container
PointerReachesPage == ~showSignatureModal

\* handleToolChange opening the modal on every selection of sign
handleToolChange_alwaysOpens(tool) ==
    /\ activeTool' = tool
    /\ showSignatureModal' =
          IF tool = "sign" THEN TRUE ELSE showSignatureModal
    /\ UNCHANGED <<numPages, currentPage, scale, signatureToPlace,
                   exportVars, canvasVars, annotations, viewerVars, nextId, presses>>

handleToolChange(tool) ==
    /\ activeTool' = tool
    /\ showSignatureModal' =
          IF tool = "sign" /\ signatureToPlace = NoStamp
          THEN TRUE ELSE showSignatureModal
    /\ UNCHANGED <<numPages, currentPage, scale, signatureToPlace,
                   exportVars, canvasVars, annotations, viewerVars, nextId, presses>>

\* handleSignatureSave leaving a pending stamp in place
onSave_keepsPending(dataUrl) ==
    /\ signatureToPlace' =
          IF signatureToPlace = NoStamp THEN dataUrl ELSE signatureToPlace
    /\ showSignatureModal' = FALSE

\* onSave={handleSignatureSave}: setSignatureToPlace(dataUrl),
\* setShowSignatureModal(false)
onSave(dataUrl) ==
    /\ signatureToPlace' = dataUrl
    /\ showSignatureModal' = FALSE

\* onSave of the signature modal while it is shown
handleSignatureSave(dataUrl) ==
    /\ showSignatureModal
    /\ onSave(dataUrl)
    /\ UNCHANGED <<numPages, currentPage, scale, activeTool, exportVars, canvasVars,
                   annotations, viewerVars, nextId, presses>>

\* onClose of the signature modal
closeSignatureModal ==
    /\ showSignatureModal
    /\ showSignatureModal' = FALSE
    /\ UNCHANGED <<numPages, currentPage, scale, activeTool, signatureToPlace,
                   exportVars, canvasVars, annotations, viewerVars, nextId, presses>>

\* onSignaturePlaced that leaves the stamp pending
onSignaturePlaced_keepsStamp == signatureToPlace' = signatureToPlace

\* onSignaturePlaced: () => setSignatureToPlace(null)
onSignaturePlaced == signatureToPlace' = NoStamp

\* handleReset that leaves the highlights in the store
handleReset_keepsHighlights ==
    /\ annotations' = [EmptyStore EXCEPT
                          !.highlights = annotations.highlights]
    /\ UNCHANGED <<numPages, currentPage, scale, activeTool,
                   showSignatureModal, signatureToPlace, exportVars, canvasVars,
                   viewerVars, nextId, presses>>

handleReset ==
    /\ annotations' = EmptyStore
    /\ UNCHANGED <<numPages, currentPage, scale, activeTool,
                   showSignatureModal, signatureToPlace, exportVars, canvasVars,
                   viewerVars, nextId, presses>>

---------------------------------------------------------------------------
(* PDFViewer handlers *)

\* onClick of the page container
handleClick(e) ==
    /\ PointerReachesPage
    /\ IF draggingId # NoId \/ resizing # None
       THEN UNCHANGED <<annotations, signatureToPlace, nextId>>
       ELSE LET p == Pos(e) IN
            IF activeTool = "sign" /\ signatureToPlace # NoStamp
            THEN /\ CanGenerate
                 /\ annotations' = AddSignatureTo(annotations,
                        [x |-> p.x, y |-> p.y,
                         width |-> DefaultSigWidth * Den,
                         height |-> DefaultSigHeight * Den,
                         dataUrl |-> signatureToPlace,
                         page |-> currentPage])
                 /\ nextId' = nextId + 1
                 /\ onSignaturePlaced
            ELSE IF activeTool = "text"
            THEN /\ CanGenerate
                 /\ annotations' = AddTextTo(annotations,
                        [x |-> p.x, y |-> p.y, text |-> << >>,
                         fontSize |-> DefaultFontSize,
                         color |-> DefaultTextColor,
                         page |-> currentPage])
                 /\ nextId' = nextId + 1
                 /\ UNCHANGED signatureToPlace
            ELSE UNCHANGED <<annotations, signatureToPlace, nextId>>
    /\ UNCHANGED <<numPages, currentPage, scale, activeTool,
                   showSignatureModal, exportVars, canvasVars, viewerVars, presses>>

\* onMouseDown of the page container
handleMouseDown(e) ==
    /\ PointerReachesPage
    /\ IF activeTool = "highlight"
       THEN LET p == Pos(e) IN
            /\ highlightStart' = Some([x |-> p.x, y |-> p.y])
            /\ tempHighlight' =
                  Some([x |-> p.x, y |-> p.y, width |-> 0, height |-> 0])
       ELSE UNCHANGED <<highlightStart, tempHighlight>>
    /\ UNCHANGED <<editorVars, editingTextId, draggingId, dragOffset,
                   resizing, nextId, presses>>

\* the rubber band measured from the anchor, without Math.min and Math.abs
rubberBand_fromAnchor(start, p) ==
    [x |-> start.x,
     y |-> start.y,
     width |-> p.x - start.x,
     height |-> p.y - start.y]

\* the rubber band of handleMouseMove: bounding box of anchor and pointer
rubberBand(start, p) ==
    [x |-> Min(start.x, p.x),
     y |-> Min(start.y, p.y),
     width |-> Abs(p.x - start.x),
     height |-> Abs(p.y - start.y)]

\* the resize branch without Math.max
resizeUpdates_unclamped(r, p) ==
    LET deltaX == p.x - r.startX
        deltaY == p.y - r.startY
        wider == r.startWidth + deltaX
        narrower == r.startWidth - deltaX
        taller == r.startHeight + deltaY
        shorter == r.startHeight - deltaY
    IN  CASE r.handle = "se" ->
               [x |-> r.startLeft, y |-> r.startTop,
                width |-> wider, height |-> taller]
          [] r.handle = "sw" ->
               [x |-> r.startLeft + (r.startWidth - narrower),
                y |-> r.startTop,
                width |-> narrower, height |-> taller]
          [] r.handle = "ne" ->
               [x |-> r.startLeft,
                y |-> r.startTop + (r.startHeight - shorter),
                width |-> wider, height |-> shorter]
          [] r.handle = "nw" ->
               [x |-> r.startLeft + (r.startWidth - narrower),
                y |-> r.startTop + (r.startHeight - shorter),
                width |-> narrower, height |-> shorter]

\* the resize branch moving the origin by the pointer delta, whatever
\* the clamped size
resizeUpdates_movesOrigin(r, p) ==
    LET deltaX == p.x - r.startX
        deltaY == p.y - r.startY
        wider == Max(MinSigWidth * Den, r.startWidth + deltaX)
        narrower == Max(MinSigWidth * Den, r.startWidth - deltaX)
        taller == Max(MinSigHeight * Den, r.startHeight + deltaY)
        shorter == Max(MinSigHeight * Den, r.startHeight - deltaY)
    IN  CASE r.handle = "se" ->
               [x |-> r.startLeft, y |-> r.startTop,
                width |-> wider, height |-> taller]
          [] r.handle = "sw" ->
               [x |-> r.startLeft + deltaX,
                y |-> r.startTop,
                width |-> narrower, height |-> taller]
          [] r.handle = "ne" ->
               [x |-> r.startLeft,
                y |-> r.startTop + deltaY,
                width |-> wider, height |-> shorter]
          [] r.handle = "nw" ->
               [x |-> r.startLeft + deltaX,
                y |-> r.startTop + deltaY,
                width |-> narrower, height |-> shorter]

\* the resize branch of handleMouseMove: the updates handed to
\* onUpdateSignature for the resize descriptor r and the pointer at p
resizeUpdates(r, p) ==
    LET deltaX == p.x - r.startX
        deltaY == p.y - r.startY
        wider == Max(MinSigWidth * Den, r.startWidth + deltaX)
        narrower == Max(MinSigWidth * Den, r.startWidth - deltaX)
        taller == Max(MinSigHeight * Den, r.startHeight + deltaY)
        shorter == Max(MinSigHeight * Den, r.startHeight - deltaY)
    IN  CASE r.handle = "se" ->
               [x |-> r.startLeft, y |-> r.startTop,
                width |-> wider, height |-> taller]
          [] r.handle = "sw" ->
               [x |-> r.startLeft + (r.startWidth - narrower),
                y |-> r.startTop,
                width |-> narrower, height |-> taller]
          [] r.handle = "ne" ->
               [x |-> r.startLeft,
                y |-> r.startTop + (r.startHeight - shorter),
                width |-> wider, height |-> shorter]
          [] r.handle = "nw" ->
               [x |-> r.startLeft + (r.startWidth - narrower),
                y |-> r.startTop + (r.startHeight - shorter),
                width |-> narrower, height |-> shorter]

\* the drag branch of handleMouseMove: the updates handed to
\* onUpdateSignature / onUpdateText
dragUpdates(offset, p) ==
    [x |-> p.x - offset.x, y |-> p.y - offset.y]

\* the store after the resize and drag branches of handleMouseMove with
\* the pointer at p
storeAfterMove(p) ==
    IF resizing # None
    THEN IF hasId(annotations.signatures, resizing[1].id)
         THEN UpdateSignatureIn(annotations, resizing[1].id,
                                resizeUpdates(resizing[1], p))
         ELSE annotations
    ELSE IF draggingId # NoId
    THEN IF hasId(annotations.signatures, draggingId)
         THEN UpdateSignatureIn(annotations, draggingId,
                                dragUpdates(dragOffset, p))
         ELSE IF hasId(annotations.texts, draggingId)
         THEN UpdateTextIn(annotations, draggingId,
                           dragUpdates(dragOffset, p))
         ELSE annotations
    ELSE annotations

\* onMouseMove of the page container
handleMouseMove(e) ==
    /\ PointerReachesPage
    /\ LET p == Pos(e) IN
       /\ tempHighlight' =
             IF highlightStart # None /\ activeTool = "highlight"
             THEN Some(rubberBand(highlightStart[1], p))
             ELSE tempHighlight
       /\ annotations' = storeAfterMove(p)
    /\ UNCHANGED <<numPages, currentPage, scale, activeTool,
                   showSignatureModal, signatureToPlace, exportVars, canvasVars,
                   editingTextId, highlightStart, draggingId, dragOffset,
                   resizing, nextId, presses>>

\* the commit test with the threshold itself included
commitsHighlight_inclusive(th) ==
    /\ th # None
    /\ th[1].width >= MinHighlightWidth * Den
    /\ th[1].height >= MinHighlightHeight * Den

\* the rubber band is committed when it is larger than the threshold
commitsHighlight(th) ==
    /\ th # None
    /\ th[1].width > MinHighlightWidth * Den
    /\ th[1].height > MinHighlightHeight * Den

\* handleMouseUp without setResizing(null)
handleMouseUp_keepsResizing ==
    /\ PointerReachesPage
    /\ IF commitsHighlight(tempHighlight)
       THEN /\ CanGenerate
            /\ annotations' = AddHighlightTo(annotations,
                   [x |-> tempHighlight[1].x, y |-> tempHighlight[1].y,
                    width |-> tempHighlight[1].width,
                    height |-> tempHighlight[1].height,
                    page |-> currentPage])
            /\ nextId' = nextId + 1
       ELSE UNCHANGED <<annotations, nextId>>
    /\ highlightStart' = None
    /\ tempHighlight' = None
    /\ draggingId' = NoId
    /\ UNCHANGED <<numPages, currentPage, scale, activeTool,
                   showSignatureModal, signatureToPlace, exportVars, canvasVars,
                   editingTextId, dragOffset, presses, resizing>>

\* onMouseUp and onMouseLeave of the page container
handleMouseUp ==
    /\ PointerReachesPage
    /\ IF commitsHighlight(tempHighlight)
       THEN /\ CanGenerate
            /\ annotations' = AddHighlightTo(annotations,
                   [x |-> tempHighlight[1].x, y |-> tempHighlight[1].y,
                    width |-> tempHighlight[1].width,
                    height |-> tempHighlight[1].height,
                    page |-> currentPage])
            /\ nextId' = nextId + 1
       ELSE UNCHANGED <<annotations, nextId>>
    /\ highlightStart' = None
    /\ tempHighlight' = None
    /\ draggingId' = NoId
    /\ resizing' = None
    /\ UNCHANGED <<numPages, currentPage, scale, activeTool,
                   showSignatureModal, signatureToPlace, exportVars, canvasVars,
                   editingTextId, dragOffset, presses>>

\* startDrag(e, id, itemX, itemY): onMouseDown of an annotation element
startDrag(e, id, itemX, itemY) ==
    IF activeTool = "highlight"
    THEN UNCHANGED vars
    ELSE LET p == Pos(e) IN
         /\ presses' = presses + 1
         /\ draggingId' = id
         /\ dragOffset' = [x |-> p.x - itemX, y |-> p.y - itemY]
         /\ UNCHANGED <<editorVars, editingTextId, highlightStart,
                        tempHighlight, resizing, nextId>>

\* onMouseDown of a rendered signature element; under the highlight tool
\* the element takes no pointer events
signatureMouseDown(e, i) ==
    /\ PointerReachesPage
    /\ i \in rendered(annotations.signatures)
    /\ activeTool # "highlight"
    /\ LET s == annotations.signatures[i] IN startDrag(e, s.id, s.x, s.y)

\* onMouseDown of a rendered text element
textMouseDown(e, i) ==
    /\ PointerReachesPage
    /\ i \in rendered(annotations.texts)
    /\ LET t == annotations.texts[i] IN startDrag(e, t.id, t.x, t.y)

\* startResize(e, id, handle, signature): onMouseDown of a resize handle,
\* which is rendered unless the highlight tool is active
startResize(e, handle, i) ==
    /\ PointerReachesPage
    /\ i \in rendered(annotations.signatures)
    /\ activeTool # "highlight"
    /\ presses' = presses + 1
    /\ LET p == Pos(e)
           signature == annotations.signatures[i]
       IN  resizing' = Some([id |-> signature.id, handle |-> handle,
                             startX |-> p.x, startY |-> p.y,
                             startWidth |-> signature.width,
                             startHeight |-> signature.height,
                             startLeft |-> signature.x,
                             startTop |-> signature.y])
    /\ UNCHANGED <<editorVars, editingTextId, highlightStart, tempHighlight,
                   draggingId, dragOffset, nextId>>

highlightClick_anyTool(i) ==
    /\ PointerReachesPage
    /\ i \in rendered(annotations.highlights)
    /\ annotations' =
          DeleteHighlightIn(annotations, annotations.highlights[i].id)
    /\ UNCHANGED <<numPages, currentPage, scale, activeTool,
                   showSignatureModal, signatureToPlace, exportVars, canvasVars,
                   viewerVars, nextId, presses>>

\* onClick of a rendered highlight
highlightClick(i) ==
    /\ PointerReachesPage
    /\ i \in rendered(annotations.highlights)
    /\ annotations' =
          IF activeTool = "select"
          THEN DeleteHighlightIn(annotations, annotations.highlights[i].id)
          ELSE annotations
    /\ UNCHANGED <<numPages, currentPage, scale, activeTool,
                   showSignatureModal, signatureToPlace, exportVars, canvasVars,
                   viewerVars, nextId, presses>>

\* onClick of a signature's delete button, rendered under the select tool
signatureDeleteClick(i) ==
    /\ i \in rendered(annotations.signatures)
    /\ activeTool = "select"
    /\ annotations' =
          DeleteSignatureIn(annotations, annotations.signatures[i].id)
    /\ UNCHANGED <<numPages, currentPage, scale, activeTool,
                   showSignatureModal, signatureToPlace, exportVars, canvasVars,
                   viewerVars, nextId, presses>>

\* onClick of a text's delete button, rendered under the select tool while
\* no text is being edited
textDeleteClick(i) ==
    /\ i \in rendered(annotations.texts)
    /\ activeTool = "select"
    /\ editingTextId = NoId
    /\ annotations' = DeleteTextIn(annotations, annotations.texts[i].id)
    /\ UNCHANGED <<numPages, currentPage, scale, activeTool,
                   showSignatureModal, signatureToPlace, exportVars, canvasVars,
                   viewerVars, nextId, presses>>

---------------------------------------------------------------------------
(* Inline text editing *)

\* the element of text i is the input (edit mode), not the display div
inEditMode(i) ==
    /\ i \in rendered(annotations.texts)
    /\ editingTextId = annotations.texts[i].id

\* onClick of a text's display div
textDisplayClick(i) ==
    /\ PointerReachesPage
    /\ i \in rendered(annotations.texts)
    /\ ~inEditMode(i)
    /\ editingTextId' = annotations.texts[i].id
    /\ UNCHANGED <<editorVars, highlightStart, tempHighlight, draggingId,
                   dragOffset, resizing, nextId, presses>>

\* onChange of a text's input
textInputChange(i, value) ==
    /\ inEditMode(i)
    /\ annotations' = UpdateTextIn(annotations, annotations.texts[i].id,
                                   [text |-> value])
    /\ UNCHANGED <<numPages, currentPage, scale, activeTool,
                   showSignatureModal, signatureToPlace, exportVars, canvasVars,
                   viewerVars, nextId, presses>>

\* the commit body testing the content without trim()
commitText_untrimmed(textAnnotation) ==
    /\ editingTextId' = NoId
    /\ annotations' =
          IF textAnnotation.text = << >>
          THEN DeleteTextIn(annotations, textAnnotation.id)
          ELSE annotations

\* the body shared by onBlur and by onKeyDown with Enter
commitText(textAnnotation) ==
    /\ editingTextId' = NoId
    /\ annotations' =
          IF trim(textAnnotation.text) = << >>
          THEN DeleteTextIn(annotations, textAnnotation.id)
          ELSE annotations

\* onBlur of a text's input
textInputBlur(i) ==
    /\ inEditMode(i)
    /\ commitText(annotations.texts[i])
    /\ UNCHANGED <<numPages, currentPage, scale, activeTool,
                   showSignatureModal, signatureToPlace, exportVars, canvasVars,
                   highlightStart, tempHighlight, draggingId, dragOffset,
                   resizing, nextId, presses>>

Keys == {"Enter", "a"}

\* onKeyDown of a text's input
textInputKeyDown(i, key) ==
    /\ inEditMode(i)
    /\ IF key = "Enter"
       THEN commitText(annotations.texts[i])
       ELSE UNCHANGED <<annotations, editingTextId>>
    /\ UNCHANGED <<numPages, currentPage, scale, activeTool,
                   showSignatureModal, signatureToPlace, exportVars, canvasVars,
                   highlightStart, tempHighlight, draggingId, dragOffset,
                   resizing, nextId, presses>>

---------------------------------------------------------------------------
(* Toolbar: page navigation and zoom; document load *)

\* onDocumentLoad: the renderer reports the page count
onDocumentLoad(n) ==
    /\ numPages = 0
    /\ numPages' = n
    /\ UNCHANGED <<currentPage, scale, activeTool, showSignatureModal,
                   signatureToPlace, exportVars, canvasVars, annotations, viewerVars,
                   nextId, presses>>

previousPage_neverDisabled ==
    /\ currentPage' = currentPage - 1
    /\ UNCHANGED <<numPages, scale, activeTool, showSignatureModal,
                   signatureToPlace, exportVars, canvasVars, annotations, viewerVars,
                   nextId, presses>>

\* onClick of the Previous Page button, disabled on the first page
previousPage ==
    /\ ~(currentPage <= 1)
    /\ currentPage' = currentPage - 1
    /\ UNCHANGED <<numPages, scale, activeTool, showSignatureModal,
                   signatureToPlace, exportVars, canvasVars, annotations, viewerVars,
                   nextId, presses>>

nextPage ==
    /\ ~(currentPage >= numPages)
    /\ currentPage' = currentPage + 1
    /\ UNCHANGED <<numPages, scale, activeTool, showSignatureModal,
                   signatureToPlace, exportVars, canvasVars, annotations, viewerVars,
                   nextId, presses>>

\* the zoom-in button never disabled
zoomIn_neverDisabled ==
    /\ scale' = scale + ZoomStep
    /\ UNCHANGED <<numPages, currentPage, activeTool, showSignatureModal,
                   signatureToPlace, exportVars, canvasVars, annotations, viewerVars,
                   nextId, presses>>

\* the zoom-in button also scaling the stored origins
zoomIn_rescales ==
    /\ ~(scale >= ZoomMax)
    /\ scale' = scale + ZoomStep
    /\ annotations' =
          [annotations EXCEPT
              !.signatures = [i \in 1..Len(@) |-> [@[i] EXCEPT !.x = 2 * @]],
              !.texts = [i \in 1..Len(@) |-> [@[i] EXCEPT !.x = 2 * @]]]
    /\ UNCHANGED <<numPages, currentPage, activeTool, showSignatureModal,
                   signatureToPlace, exportVars, canvasVars, viewerVars, nextId,
                   presses>>

zoomOut ==
    /\ ~(scale <= ZoomMin)
    /\ scale' = scale - ZoomStep
    /\ UNCHANGED <<numPages, currentPage, activeTool, showSignatureModal,
                   signatureToPlace, exportVars, canvasVars, annotations, viewerVars,
                   nextId, presses>>

\* the zoom-in button also scaling the stored highlights
zoomIn_rescalesHighlights ==
    /\ ~(scale >= ZoomMax)
    /\ scale' = scale + ZoomStep
    /\ annotations' =
          [annotations EXCEPT
              !.highlights =
                  [i \in 1..Len(@) |-> [@[i] EXCEPT !.width = 2 * @]]]
    /\ UNCHANGED <<numPages, currentPage, activeTool, showSignatureModal,
                   signatureToPlace, exportVars, canvasVars, viewerVars, nextId,
                   presses>>

\* onClick of the zoom-in button, disabled at the largest scale
zoomIn ==
    /\ ~(scale >= ZoomMax)
    /\ scale' = scale + ZoomStep
    /\ UNCHANGED <<numPages, currentPage, activeTool, showSignatureModal,
                   signatureToPlace, exportVars, canvasVars, annotations, viewerVars,
                   nextId, presses>>

---------------------------------------------------------------------------
(* The editor at the initial zoom: every handler of the viewer and of the  *)
(* editor but zoom, page navigation and export                             *)

ToolChange == \E tool \in Tools : handleToolChange(tool)
SignatureSave == \E dataUrl \in DataUrls : handleSignatureSave(dataUrl)
CloseModal == closeSignatureModal
Reset == handleReset
Click == \E e \in Points : handleClick(e)
MouseDown == \E e \in Points : handleMouseDown(e)
MouseMove == \E e \in Points : handleMouseMove(e)
MouseUp == handleMouseUp
\* the presses on annotations and handles, at most MaxPresses in a run
SignatureMouseDown ==
    /\ presses < MaxPresses
    /\ \E e \in Points : \E i \in 1..Len(annotations.signatures) :
          signatureMouseDown(e, i)
TextMouseDown ==
    /\ presses < MaxPresses
    /\ \E e \in Points : \E i \in 1..Len(annotations.texts) :
          textMouseDown(e, i)
StartResize ==
    /\ presses < MaxPresses
    /\ \E e \in Points : \E handle \in ResizeHandles :
          \E i \in 1..Len(annotations.signatures) :
              startResize(e, handle, i)
HighlightClick ==
    \E i \in 1..Len(annotations.highlights) : highlightClick(i)
SignatureDeleteClick ==
    \E i \in 1..Len(annotations.signatures) : signatureDeleteClick(i)
TextDeleteClick ==
    \E i \in 1..Len(annotations.texts) : textDeleteClick(i)
TextDisplayClick ==
    \E i \in 1..Len(annotations.texts) : textDisplayClick(i)
TextInputChange ==
    \E i \in 1..Len(annotations.texts) : \E value \in InputValues :
        textInputChange(i, value)
TextInputBlur ==
    \E i \in 1..Len(annotations.texts) : textInputBlur(i)
TextInputKeyDown ==
    \E i \in 1..Len(annotations.texts) : \E key \in Keys :
        textInputKeyDown(i, key)

Next ==
    \/ ToolChange
    \/ SignatureSave
    \/ CloseModal
    \/ Reset
    \/ Click
    \/ MouseDown
    \/ MouseMove
    \/ MouseUp
    \/ SignatureMouseDown
    \/ TextMouseDown
    \/ StartResize
    \/ HighlightClick
    \/ SignatureDeleteClick
    \/ TextDeleteClick
    \/ TextDisplayClick
    \/ TextInputChange
    \/ TextInputBlur
    \/ TextInputKeyDown

Spec == Init /\ [][Next]_vars

---------------------------------------------------------------------------
(* The page view: placement clicks on every page and under a changing zoom *)
(* scale, without gestures and inline editing                              *)

DocumentLoad == \E n \in 1..MaxPages : onDocumentLoad(n)
PreviousPage == previousPage
NextPage == nextPage
\* the zoom buttons, within MaxZoomSteps steps of the initial scale
ViewZoomOut == zoomOut /\ scale' >= InitialScale - MaxZoomSteps * ZoomStep
ViewZoomIn == zoomIn /\ scale' <= InitialScale + MaxZoomSteps * ZoomStep
\* a click, as long as the run has created at most MaxViewIds annotations
ViewClick ==
    \E e \in Points : handleClick(e) /\ nextId' <= MaxViewIds + 1

NextView ==
    \/ ToolChange
    \/ SignatureSave
    \/ CloseModal
    \/ Reset
    \/ DocumentLoad
    \/ PreviousPage
    \/ NextPage
    \/ ViewZoomOut
    \/ ViewZoomIn
    \/ ViewClick

SpecView == Init /\ [][NextView]_vars

---------------------------------------------------------------------------
(* The highlight rubber band on every page, with pointer positions around  *)
(* the commit threshold                                                    *)

\* at scale 1 the rubber bands between these positions measure 10 x 5,
\* 11 x 6, 11 x 5, 10 x 6 and less
BandPoints ==
    {MouseEvent(8, 8), MouseEvent(18, 13), MouseEvent(19, 14),
     MouseEvent(19, 13), MouseEvent(18, 14)}

BandMouseDown == \E e \in BandPoints : handleMouseDown(e)
BandMouseMove == \E e \in BandPoints : handleMouseMove(e)

NextBand ==
    \/ ToolChange
    \/ CloseModal
    \/ DocumentLoad
    \/ PreviousPage
    \/ NextPage
    \/ BandMouseDown
    \/ BandMouseMove
    \/ MouseUp
    \/ HighlightClick

SpecBand == Init /\ [][NextBand]_vars

---------------------------------------------------------------------------
(* Drag and resize of one annotation, with pointer positions on both sides *)
(* of the minimum-size clamp and up to MaxGesturePresses presses           *)

\* at scale 1 these positions lie 20 x 10, 100 x 30 and 120 x 40 apart
GesturePoints == {MouseEvent(8, 8), MouseEvent(28, 18), MouseEvent(128, 48)}

GestureClick ==
    \E e \in GesturePoints : handleClick(e) /\ nextId' <= MaxGestureIds + 1
GestureSignatureMouseDown ==
    /\ presses < MaxGesturePresses
    /\ \E e \in GesturePoints : \E i \in 1..Len(annotations.signatures) :
          signatureMouseDown(e, i)
GestureTextMouseDown ==
    /\ presses < MaxGesturePresses
    /\ \E e \in GesturePoints : \E i \in 1..Len(annotations.texts) :
          textMouseDown(e, i)
GestureStartResize ==
    /\ presses < MaxGesturePresses
    /\ \E e \in GesturePoints : \E handle \in ResizeHandles :
          \E i \in 1..Len(annotations.signatures) :
              startResize(e, handle, i)
GestureMouseMove == \E e \in GesturePoints : handleMouseMove(e)

NextGesture ==
    \/ ToolChange
    \/ SignatureSave
    \/ GestureClick
    \/ GestureSignatureMouseDown
    \/ GestureTextMouseDown
    \/ GestureStartResize
    \/ GestureMouseMove
    \/ MouseUp

SpecGesture == Init /\ [][NextGesture]_vars

---------------------------------------------------------------------------
(* Gestures *)

dragActive == draggingId # NoId
resizeActive == resizing # None
rubberBandActive == highlightStart # None \/ tempHighlight # None

activeGestures ==
    (IF dragActive THEN 1 ELSE 0) + (IF resizeActive THEN 1 ELSE 0)
        + (IF rubberBandActive THEN 1 ELSE 0)

noGesture ==
    /\ draggingId = NoId
    /\ resizing = None
    /\ highlightStart = None
    /\ tempHighlight = None

\* C1: in every reachable state at most one of the three gestures (drag,
\* resize, highlight rubber band) is active.
C1_AtMostOneGesture == activeGestures <= 1

\* C2: every mouse-up or mouse-leave of the page container leaves
\* draggingId, resizing, highlightStart and tempHighlight all empty.
C2_ReleaseEndsGesture == [][handleMouseUp => noGesture']_vars

\* a release has acted on a rubber band: it committed a highlight and no
\* gesture is left
C2_Witness ==
    /\ Len(annotations.highlights) > 0
    /\ noGesture

---------------------------------------------------------------------------
(* Placement *)

\* s with one element more at its end
appendsOne(old, new) ==
    /\ Len(new) = Len(old) + 1
    /\ SubSeq(new, 1, Len(old)) = old

\* the element at (x, y) lies where the event e points to in document
\* space: scaled back by the zoom it is the event's offset in the container
atClickPoint(a, e) ==
    /\ a.x * scale = (e.clientX - ContainerRect.left) * 4 * Den
    /\ a.y * scale = (e.clientY - ContainerRect.top) * 4 * Den

\* C3: a click on the document with the sign tool, a pending stamp and no
\* drag or resize in progress appends exactly one signature, at the click's
\* document-space coordinates, 150 wide and 60 high, on the current page,
\* carrying the pending stamp; texts and highlights are unchanged.
C3_SignPlacement ==
    [][\A e \in Points :
          (/\ handleClick(e)
           /\ activeTool = "sign"
           /\ signatureToPlace # NoStamp
           /\ draggingId = NoId
           /\ resizing = None)
          => /\ appendsOne(annotations.signatures, annotations'.signatures)
             /\ LET placed ==
                      annotations'.signatures[Len(annotations'.signatures)]
                IN  /\ atClickPoint(placed, e)
                    /\ placed.width = 150 * Den
                    /\ placed.height = 60 * Den
                    /\ placed.page = currentPage
                    /\ placed.dataUrl = signatureToPlace
             /\ annotations'.texts = annotations.texts
             /\ annotations'.highlights = annotations.highlights]_vars

\* a signature placed on page 2 at the pointer position (19, 14) under the
\* zoom scale 0.75
C3_Witness ==
    \E i \in 1..Len(annotations.signatures) :
        /\ annotations.signatures[i].page = 2
        /\ annotations.signatures[i].x * 3 = 11 * 4 * Den
        /\ annotations.signatures[i].y * 3 = 6 * 4 * Den

signatureIds(store) ==
    {store.signatures[i].id : i \in 1..Len(store.signatures)}

\* C4: a pending stamp is consumed at most once: a step creates at most one
\* signature, it creates one only when a stamp is pending and it clears the
\* stamp in that same step; and a stamp becomes pending only by a save of
\* the signature modal.  Hence no more signatures are ever created than
\* signatures were saved.
C4_StampConsumedOnce ==
    [][LET created ==
               signatureIds(annotations') \ signatureIds(annotations)
       IN  /\ Cardinality(created) <= 1
           /\ created # {} => /\ signatureToPlace # NoStamp
                              /\ signatureToPlace' = NoStamp
           /\ (signatureToPlace' # NoStamp
                  /\ signatureToPlace' # signatureToPlace)
              => \E dataUrl \in DataUrls : handleSignatureSave(dataUrl)]_vars

\* two stamps were saved and placed one after the other, and none is pending
C4_Witness ==
    /\ Len(annotations.signatures) = 2
    /\ annotations.signatures[1].dataUrl # annotations.signatures[2].dataUrl
    /\ signatureToPlace = NoStamp
    /\ activeTool = "sign"

\* C5: a tool switch never changes the pending stamp, and selecting the sign
\* tool opens the signature modal if and only if no stamp is pending.
C5_ToolSwitchKeepsStamp ==
    [][\A tool \in Tools :
          handleToolChange(tool)
          => /\ signatureToPlace' = signatureToPlace
             /\ tool = "sign"
                  => (showSignatureModal' <=> signatureToPlace = NoStamp)]_vars

\* the tool was switched away from sign while a stamp is pending
C5_Witness ==
    /\ signatureToPlace # NoStamp
    /\ activeTool = "text"
    /\ ~showSignatureModal

\* the text annotation a click of the text tool creates
isNewText(t, e) ==
    /\ atClickPoint(t, e)
    /\ t.text = << >>
    /\ t.fontSize = 16
    /\ t.color = "#1a1a2e"
    /\ t.page = currentPage

\* C6 as stated: a click on the document with the text tool appends one
\* empty text annotation (font size 16, default colour, current page) at
\* the click point and right after the click editingTextId is its id.
C6_TextClickEntersEditMode ==
    [][\A e \in Points :
          (/\ handleClick(e)
           /\ activeTool = "text"
           /\ draggingId = NoId
           /\ resizing = None)
          => /\ appendsOne(annotations.texts, annotations'.texts)
             /\ isNewText(annotations'.texts[Len(annotations'.texts)], e)
             /\ editingTextId' =
                   annotations'.texts[Len(annotations'.texts)].id]_vars

\* C6: a click on the document with the text tool and no drag or resize in
\* progress appends one empty text annotation (font size 16, default
\* colour, current page) at the click point and leaves editingTextId as it
\* was: the new annotation is not in edit mode.
C6_TextClickAddsText ==
    [][\A e \in Points :
          (/\ handleClick(e)
           /\ activeTool = "text"
           /\ draggingId = NoId
           /\ resizing = None)
          => /\ appendsOne(annotations.texts, annotations'.texts)
             /\ isNewText(annotations'.texts[Len(annotations'.texts)], e)
             /\ editingTextId' = editingTextId
             /\ editingTextId' #
                   annotations'.texts[Len(annotations'.texts)].id]_vars

\* an empty text placed on page 2 that is not being edited
C6_Witness ==
    \E i \in 1..Len(annotations.texts) :
        /\ annotations.texts[i].page = 2
        /\ annotations.texts[i].text = << >>
        /\ editingTextId # annotations.texts[i].id

---------------------------------------------------------------------------
(* Text commit *)

\* nothing but white space
blank(content) == \A k \in 1..Len(content) : content[k] = " "

\* s without its element at index i
without(s, i) == SubSeq(s, 1, i - 1) \o SubSeq(s, i + 1, Len(s))

\* C7: committing a text edit (blur or Enter) always clears editingTextId;
\* it removes the edited annotation exactly when its content is blank, and
\* otherwise leaves the store, the content included, as it was.
C7_CommitText ==
    [][\A i \in 1..Len(annotations.texts) :
          (textInputBlur(i) \/ textInputKeyDown(i, "Enter"))
          => /\ editingTextId' = NoId
             /\ annotations'.texts =
                   IF blank(annotations.texts[i].text)
                   THEN without(annotations.texts, i)
                   ELSE annotations.texts
             /\ annotations'.signatures = annotations.signatures
             /\ annotations'.highlights = annotations.highlights]_vars

\* two texts were edited: the one left blank is gone, the other one is
\* committed with its content and no edit is open
C7_Witness ==
    /\ editingTextId = NoId
    /\ nextId = 3
    /\ Len(annotations.texts) = 1
    /\ annotations.texts[1].text = <<"a">>
    /\ annotations.signatures = << >>
    /\ activeTool = "text"

---------------------------------------------------------------------------
(* Highlight commit *)

\* C8: a release appends exactly one highlight, with the rubber band's
\* rectangle and the current page, if and only if the rubber band is wider
\* than 10 and higher than 5; otherwise it appends nothing.
C8_ReleaseCommitsHighlight ==
    [][handleMouseUp =>
          IF /\ tempHighlight # None
             /\ tempHighlight[1].width > 10 * Den
             /\ tempHighlight[1].height > 5 * Den
          THEN /\ appendsOne(annotations.highlights, annotations'.highlights)
               /\ LET added ==
                        annotations'.highlights[Len(annotations'.highlights)]
                  IN  /\ added.x = tempHighlight[1].x
                      /\ added.y = tempHighlight[1].y
                      /\ added.width = tempHighlight[1].width
                      /\ added.height = tempHighlight[1].height
                      /\ added.page = currentPage
               /\ annotations'.signatures = annotations.signatures
               /\ annotations'.texts = annotations.texts
          ELSE annotations' = annotations]_vars

\* a rubber band of exactly 11 x 6 was committed on page 2
C8_Witness ==
    \E i \in 1..Len(annotations.highlights) :
        /\ annotations.highlights[i].width = 11 * Den
        /\ annotations.highlights[i].height = 6 * Den
        /\ annotations.highlights[i].page = 2

---------------------------------------------------------------------------
(* Drag and resize *)

\* the element a, moved to (x, y) and otherwise as it was
movedTo(a, x, y) == [a EXCEPT !.x = x, !.y = y]

\* every element of old with the identifier id is moved to (x, y) in new;
\* the other elements are as they were
onlyMoved(old, new, id, x, y) ==
    /\ Len(new) = Len(old)
    /\ \A i \in 1..Len(old) :
          new[i] = IF old[i].id = id THEN movedTo(old[i], x, y) ELSE old[i]

\* C9 as stated: while an annotation is being dragged under a tool other
\* than highlight, each move sets its position to the pointer minus the
\* offset recorded at press and changes nothing else in the store.
C9_DragFollowsPointer ==
    [][\A e \in GesturePoints :
          (/\ handleMouseMove(e)
           /\ draggingId # NoId
           /\ activeTool # "highlight")
          => LET x == Pos(e).x - dragOffset.x
                 y == Pos(e).y - dragOffset.y
             IN  /\ onlyMoved(annotations.signatures,
                              annotations'.signatures, draggingId, x, y)
                 /\ onlyMoved(annotations.texts,
                              annotations'.texts, draggingId, x, y)
                 /\ annotations'.highlights = annotations.highlights]_vars

\* the corner of the box opposite to the handle
oppositeCorner(handle, box) ==
    [x |-> IF handle \in {"nw", "sw"} THEN box.x + box.width ELSE box.x,
     y |-> IF handle \in {"nw", "ne"} THEN box.y + box.height ELSE box.y]

\* the box the resize descriptor recorded at press
startBox(r) ==
    [x |-> r.startLeft, y |-> r.startTop,
     width |-> r.startWidth, height |-> r.startHeight]

\* C10: during a resize from any of the four handles, whatever the pointer
\* position and also where the minimum size clamps, the corner of the
\* signature opposite to the handle is where it was at press.
C10_OppositeCornerFixed ==
    resizing # None =>
       \A i \in 1..Len(annotations.signatures) :
          annotations.signatures[i].id = resizing[1].id
          => oppositeCorner(resizing[1].handle, annotations.signatures[i])
                = oppositeCorner(resizing[1].handle, startBox(resizing[1]))

\* a resize from the nw handle has clamped the signature to 50 x 30 and
\* has moved its origin
C10_Witness ==
    /\ resizing # None
    /\ resizing[1].handle = "nw"
    /\ \E i \in 1..Len(annotations.signatures) :
          /\ annotations.signatures[i].id = resizing[1].id
          /\ annotations.signatures[i].width = 50 * Den
          /\ annotations.signatures[i].height = 30 * Den
          /\ annotations.signatures[i].x # resizing[1].startLeft
          /\ annotations.signatures[i].y # resizing[1].startTop

\* the handles on the right edge grow the width with the pointer's x, the
\* handles on the bottom edge grow the height with the pointer's y
growsWithX(handle) == handle \in {"ne", "se"}
growsWithY(handle) == handle \in {"sw", "se"}

\* v, but at least least
atLeast(least, v) == IF v < least THEN least ELSE v

\* every signature of the store measures at least 50 x 30
minimumSize(store) ==
    \A i \in 1..Len(store.signatures) :
        /\ store.signatures[i].width >= 50 * Den
        /\ store.signatures[i].height >= 30 * Den

\* C11: a resize move sets the width and the height of the resized
\* signature to the size at press plus (right, bottom handles) or minus
\* (left, top handles) the pointer delta since press, but to at least 50
\* and 30; and after every step every signature measures at least 50 x 30.
C11_ResizeClamped ==
    [][/\ \A e \in GesturePoints :
            (handleMouseMove(e) /\ resizing # None)
            => LET r == resizing[1]
                   dx == Pos(e).x - r.startX
                   dy == Pos(e).y - r.startY
               IN  \A i \in 1..Len(annotations.signatures) :
                      annotations.signatures[i].id = r.id
                      => /\ annotations'.signatures[i].width =
                               atLeast(50 * Den,
                                  IF growsWithX(r.handle)
                                  THEN r.startWidth + dx
                                  ELSE r.startWidth - dx)
                         /\ annotations'.signatures[i].height =
                               atLeast(30 * Den,
                                  IF growsWithY(r.handle)
                                  THEN r.startHeight + dy
                                  ELSE r.startHeight - dy)
       /\ minimumSize(annotations')]_vars

\* a resize from the se handle by (+20, +10) has made the placed signature
\* 170 x 70 and has left its origin in place
C11_Witness ==
    /\ resizing # None
    /\ resizing[1].handle = "se"
    /\ resizing[1].startWidth = 150 * Den
    /\ resizing[1].startHeight = 60 * Den
    /\ \E i \in 1..Len(annotations.signatures) :
          /\ annotations.signatures[i].id = resizing[1].id
          /\ annotations.signatures[i].width = 170 * Den
          /\ annotations.signatures[i].height = 70 * Den
          /\ annotations.signatures[i].x = resizing[1].startLeft
          /\ annotations.signatures[i].y = resizing[1].startTop

---------------------------------------------------------------------------
(* Store operations on identifiers the store does not hold *)

\* no element of s carries the identifier id
absent(s, id) == \A i \in 1..Len(s) : s[i].id # id

\* the identifiers a run can hand out, and one more
SomeIds == 1..(MaxIds + 1)

\* updating or deleting with an identifier that the targeted collection of
\* the store does not hold gives the store back
absentIdIsNoOp(store) ==
    \A id \in SomeIds :
        /\ absent(store.signatures, id)
             => /\ UpdateSignatureIn(store, id, [x |-> 0, y |-> 0]) = store
                /\ UpdateSignatureIn(store, id,
                      [x |-> Den, y |-> Den, width |-> 50 * Den,
                       height |-> 30 * Den]) = store
                /\ DeleteSignatureIn(store, id) = store
        /\ absent(store.texts, id)
             => /\ UpdateTextIn(store, id, [x |-> 0, y |-> 0]) = store
                /\ UpdateTextIn(store, id, [text |-> <<"a">>]) = store
                /\ DeleteTextIn(store, id) = store
        /\ absent(store.highlights, id)
             => DeleteHighlightIn(store, id) = store

\* C12: updating or deleting with an identifier that is not in the
\* targeted collection leaves all three collections as they were; so does
\* a pointer move of a drag or a resize whose annotation is no longer in
\* the store.
C12_AbsentIdNoOp ==
    /\ absentIdIsNoOp(annotations)
    /\ \A e \in Points :
          (IF resizing # None
           THEN absent(annotations.signatures, resizing[1].id)
           ELSE /\ draggingId # NoId
                /\ absent(annotations.signatures, draggingId)
                /\ absent(annotations.texts, draggingId))
          => storeAfterMove(Pos(e)) = annotations

\* a text was deleted while the drag on it is still in progress, and the
\* store holds another text
C12_Witness ==
    /\ draggingId # NoId
    /\ absent(annotations.signatures, draggingId)
    /\ absent(annotations.texts, draggingId)
    /\ Len(annotations.texts) = 1

---------------------------------------------------------------------------
(* Reset *)

\* C13: after a reset the signatures, texts and highlights collections are
\* all empty, whatever the store held before.
C13_ResetEmptiesStore ==
    [][handleReset =>
          /\ Len(annotations'.signatures) = 0
          /\ Len(annotations'.texts) = 0
          /\ Len(annotations'.highlights) = 0]_vars

\* the store is empty after two annotations were created
C13_Witness ==
    /\ nextId = 3
    /\ annotations.signatures = << >>
    /\ annotations.texts = << >>
    /\ annotations.highlights = << >>

---------------------------------------------------------------------------
(* Identifiers: the random source of generateId may repeat a token *)

storeSize(store) ==
    Len(store.signatures) + Len(store.texts) + Len(store.highlights)

\* Math.random(): the next token is any token, handed out before or not
drawToken ==
    /\ nextId' \in 1..MaxIds
    /\ UNCHANGED <<editorVars, viewerVars, presses>>

IdsClick ==
    /\ storeSize(annotations) < MaxIdsStore
    /\ \E e \in Points : handleClick(e)
IdsMouseUp == handleMouseUp /\ storeSize(annotations') <= MaxIdsStore

NextIds ==
    \/ drawToken
    \/ ToolChange
    \/ SignatureSave
    \/ Reset
    \/ IdsClick
    \/ MouseDown
    \/ MouseMove
    \/ IdsMouseUp
    \/ HighlightClick
    \/ SignatureDeleteClick
    \/ TextDeleteClick

SpecIds == Init /\ [][NextIds]_vars

\* the annotations of the store that carry the identifier id
idCount(store, id) ==
    Cardinality({i \in 1..Len(store.signatures) : store.signatures[i].id = id})
    + Cardinality({i \in 1..Len(store.texts) : store.texts[i].id = id})
    + Cardinality({i \in 1..Len(store.highlights) :
                      store.highlights[i].id = id})

uniqueIds(store) == \A id \in SomeIds : idCount(store, id) <= 1

---------------------------------------------------------------------------
(* Zoom: the whole range of the zoom buttons, with placement clicks *)

\* pointer positions 49 to the right of and 116 below the container origin
ZoomPoints == {MouseEvent(8, 8), MouseEvent(57, 124)}

ZoomOut == zoomOut
ZoomIn == zoomIn
ZoomClick ==
    \E e \in ZoomPoints : handleClick(e) /\ nextId' <= MaxZoomIds + 1

NextZoom ==
    \/ ToolChange
    \/ SignatureSave
    \/ ZoomOut
    \/ ZoomIn
    \/ ZoomClick

SpecZoom == Init /\ [][NextZoom]_vars

\* C15: the zoom scale is always one of 0.5, 0.75, ..., 3.0 (2 to 12
\* quarters), and each zoom action changes it by exactly 0.25 (one quarter).
C15_ZoomRange ==
    [][/\ scale' \in 2..12
       /\ zoomIn => scale' = scale + 1
       /\ zoomOut => scale' = scale - 1]_vars

\* the zoom scale has reached 3.0
C15_Witness == scale = 12

\* C16: a zoom action changes no stored annotation.
C16_ZoomKeepsStore ==
    [][(zoomIn \/ zoomOut) => annotations' = annotations]_vars

\* a signature placed 49 to the right of the origin under the scale 1 is
\* still at x = 49 under the scale 0.5
C16_Witness ==
    /\ scale = 2
    /\ \E i \in 1..Len(annotations.signatures) :
          /\ annotations.signatures[i].x = 49 * Den
          /\ annotations.signatures[i].width = 150 * Den

---------------------------------------------------------------------------
(* JavaScript numbers: IEEE 754 binary64 with round to nearest, ties to    *)
(* even.  A positive number is its 53 significant binary digits, the most  *)
(* significant first, and the exponent of the first digit.                 *)

SignificandBits == 53

Zero == [sig |-> << >>, exp |-> 0]

\* the binary digits of n >= 1, the most significant first
RECURSIVE BitsOf(_)
BitsOf(n) == IF n <= 1 THEN <<n>> ELSE Append(BitsOf(n \div 2), n % 2)

Zeros(n) == [i \in 1..n |-> 0]

\* the digits with one added at the last place (not all digits are 1)
Increment(bits) ==
    LET j == CHOOSE j \in 1..Len(bits) :
                 bits[j] = 0 /\ \A i \in (j + 1)..Len(bits) : bits[i] = 1
    IN  [i \in 1..Len(bits) |->
            IF i < j THEN bits[i] ELSE IF i = j THEN 1 ELSE 0]

\* the digits with one taken off at the last place (not all digits are 0)
Decrement(bits) ==
    LET j == CHOOSE j \in 1..Len(bits) :
                 bits[j] = 1 /\ \A i \in (j + 1)..Len(bits) : bits[i] = 0
    IN  [i \in 1..Len(bits) |->
            IF i < j THEN bits[i] ELSE IF i = j THEN 0 ELSE 1]

\* the number nearest to the value with the digits bits (the first one is
\* 1, of exponent exp), followed by more non-zero digits iff sticky
Round(bits, sticky, exp) ==
    LET len == Len(bits)
        keep == IF len >= SignificandBits
                THEN SubSeq(bits, 1, SignificandBits)
                ELSE bits \o Zeros(SignificandBits - len)
        guard == IF len > SignificandBits
                 THEN bits[SignificandBits + 1] ELSE 0
        rest == sticky \/ \E i \in (SignificandBits + 2)..len : bits[i] = 1
        up == guard = 1 /\ (rest \/ keep[SignificandBits] = 1)
    IN  IF ~up THEN [sig |-> keep, exp |-> exp]
        ELSE IF \A i \in 1..SignificandBits : keep[i] = 1
        THEN [sig |-> <<1>> \o Zeros(SignificandBits - 1), exp |-> exp + 1]
        ELSE [sig |-> Increment(keep), exp |-> exp]

\* 2^e modulo d
RECURSIVE PowMod2(_, _)
PowMod2(e, d) ==
    IF e = 0 THEN 1 % d
    ELSE LET half == PowMod2(e \div 2, d)
         IN  (half * half * (IF e % 2 = 1 THEN 2 ELSE 1)) % d

\* what is left of r, 0 <= r < d, after count digits of r / d
FractionRest(r, d, count) == (r * PowMod2(count, d)) % d

\* the first count digits after the point of r / d, 0 <= r < d
FractionBits(r, d, count) ==
    [i \in 1..count |-> (2 * FractionRest(r, d, i - 1)) \div d]

\* the zero digits after the point of r / d before its first digit 1
RECURSIVE LeadingZeros(_, _)
LeadingZeros(r, d) == IF 2 * r >= d THEN 0 ELSE 1 + LeadingZeros(2 * r, d)

RECURSIVE Shifted(_, _)
Shifted(r, z) == IF z = 0 THEN r ELSE Shifted(2 * r, z - 1)

\* the number n / d of the operator / on the integers n >= 0 and d >= 1
Float64(n, d) ==
    IF n = 0 THEN Zero
    ELSE LET whole == n \div d
             r == n % d
         IN  IF whole > 0
             THEN LET high == BitsOf(whole)
                      count == SignificandBits + 2 - Len(high)
                  IN  Round(high \o FractionBits(r, d, count),
                            FractionRest(r, d, count) # 0,
                            Len(high) - 1)
             ELSE LET z == LeadingZeros(r, d)
                      count == SignificandBits + 2
                  IN  Round(FractionBits(Shifted(r, z), d, count),
                            FractionRest(Shifted(r, z), d, count) # 0,
                            0 - (z + 1))

\* the integer with the binary digits bits, the most significant first
RECURSIVE ValueOf(_)
ValueOf(bits) ==
    IF bits = << >> THEN 0
    ELSE 2 * ValueOf(SubSeq(bits, 1, Len(bits) - 1)) + bits[Len(bits)]

\* the last width binary digits of n
Digits(n, width) ==
    LET bits == BitsOf(n)
    IN  IF Len(bits) >= width
        THEN SubSeq(bits, Len(bits) - width + 1, Len(bits))
        ELSE Zeros(width - Len(bits)) \o bits

\* the significand in four limbs of 14, 13, 13 and 13 digits
LimbWidth == (SignificandBits - 1) \div 4
LimbBase == 2 ^ LimbWidth

Limb(sig, j) ==
    IF j = 1 THEN ValueOf(SubSeq(sig, 1, SignificandBits - 3 * LimbWidth))
    ELSE ValueOf(SubSeq(sig, SignificandBits - (5 - j) * LimbWidth + 1,
                             SignificandBits - (4 - j) * LimbWidth))

\* the digits of the significand sig times the integer k, 1 <= k < 2^16
MulSmall(sig, k) ==
    LET p4 == Limb(sig, 4) * k
        p3 == Limb(sig, 3) * k + p4 \div LimbBase
        p2 == Limb(sig, 2) * k + p3 \div LimbBase
        p1 == Limb(sig, 1) * k + p2 \div LimbBase
    IN  BitsOf(p1) \o Digits(p2 % LimbBase, LimbWidth)
                   \o Digits(p3 % LimbBase, LimbWidth)
                   \o Digits(p4 % LimbBase, LimbWidth)

\* the number a * (k / 2^shift) of the operator *, for an integer k >= 1
Times(a, k, shift) ==
    IF a = Zero THEN Zero
    ELSE LET product == MulSmall(a.sig, k)
         IN  Round(product, FALSE,
                   a.exp + (Len(product) - SignificandBits) - shift)

\* the number a + o of the operator +, for an integer o >= 0 and a number
\* a below 2^30: o is added to the digits of a before the point
Plus(a, o) ==
    IF o = 0 THEN a
    ELSE IF a = Zero THEN Float64(o, 1)
    ELSE LET before == IF a.exp >= 0
                       THEN SubSeq(a.sig, 1, a.exp + 1) ELSE << >>
             after == IF a.exp >= 0
                      THEN SubSeq(a.sig, a.exp + 2, SignificandBits)
                      ELSE Zeros(0 - a.exp - 1) \o a.sig
             whole == BitsOf(ValueOf(before) + o)
         IN  Round(whole \o after, FALSE, Len(whole) - 1)


---------------------------------------------------------------------------
(* Export: handleDownload of PDFEditor and the download button of Toolbar *)

\* page.getSize().height of page p of the document
PageHeight(p) == IF p % 2 = 1 THEN 792 ELSE 842

\* pdfDoc.getPages() of a document of n pages, as the heights of the pages
getPages(n) == [p \in 1..n |-> PageHeight(p)]

\* pages[a.page - 1] is a page
hasPage(pages, a) == a.page \in 1..Len(pages)

\* the titles of the notifications of handleDownload
SuccessToast == "PDF downloaded"
ErrorToast == "Error"

\* drawImage that keeps the top-left origin of the document space
drawImage_unflipped(pages, signature) ==
    [op |-> "drawImage", page |-> signature.page,
     image |-> signature.dataUrl,
     x |-> signature.x,
     y |-> signature.y,
     width |-> signature.width, height |-> signature.height]

\* page.drawImage(pngImage, { x, y, width, height }) of the signatures loop
drawImage(pages, signature) ==
    [op |-> "drawImage", page |-> signature.page,
     image |-> signature.dataUrl,
     x |-> signature.x,
     y |-> pages[signature.page] * Den - signature.y - signature.height,
     width |-> signature.width, height |-> signature.height]

\* rgb(0.1, 0.1, 0.18) and rgb(0.98, 0.8, 0.08), in hundredths
InkColor == <<10, 10, 18>>
HighlightColor == <<98, 80, 8>>
\* opacity: 0.4, in hundredths
HighlightOpacity == 40

\* page.drawText(text.text, { x, y, size, color })
drawText(pages, text) ==
    [op |-> "drawText", page |-> text.page, text |-> text.text,
     x |-> text.x,
     y |-> pages[text.page] * Den - text.y - text.fontSize * Den,
     size |-> text.fontSize, color |-> InkColor]

\* drawRectangle with the opacity left at its default of 1
drawRectangle_opaque(pages, highlight) ==
    [op |-> "drawRectangle", page |-> highlight.page,
     x |-> highlight.x,
     y |-> pages[highlight.page] * Den - highlight.y - highlight.height,
     width |-> highlight.width, height |-> highlight.height,
     color |-> HighlightColor, opacity |-> 100]

\* page.drawRectangle({ x, y, width, height, color, opacity })
drawRectangle(pages, highlight) ==
    [op |-> "drawRectangle", page |-> highlight.page,
     x |-> highlight.x,
     y |-> pages[highlight.page] * Den - highlight.y - highlight.height,
     width |-> highlight.width, height |-> highlight.height,
     color |-> HighlightColor, opacity |-> HighlightOpacity]

\* the texts loop without the test of the trimmed content
textsDrawn_drawsBlank(pages, texts) ==
    LET keep(t) == hasPage(pages, t)
        kept == SelectSeq(texts, keep)
    IN  [i \in 1..Len(kept) |-> drawText(pages, kept[i])]

\* the texts loop: blank texts and texts without a page are skipped
textsDrawn(pages, texts) ==
    LET keep(t) == trim(t.text) # << >> /\ hasPage(pages, t)
        kept == SelectSeq(texts, keep)
    IN  [i \in 1..Len(kept) |-> drawText(pages, kept[i])]

\* the highlights loop going through the store from its end
highlightsDrawn_reversed(pages, highlights) ==
    LET keep(h) == hasPage(pages, h)
        kept == SelectSeq(highlights, keep)
    IN  [i \in 1..Len(kept) |->
            drawRectangle(pages, kept[Len(kept) + 1 - i])]

\* the highlights loop: highlights without a page are skipped
highlightsDrawn(pages, highlights) ==
    LET keep(h) == hasPage(pages, h)
        kept == SelectSeq(highlights, keep)
    IN  [i \in 1..Len(kept) |-> drawRectangle(pages, kept[i])]

\* a call of handleDownload before its first await: annotations is the
\* store the callback was created with, drawn the drawing operations on
\* pdfDoc so far, next the index of the signatures loop
startedDownload(store) ==
    [pc |-> "load", annotations |-> store, pages |-> << >>, next |-> 1,
     drawn |-> << >>]

inFlight(d) == d.pc \in {"load", "signatures", "save"}

\* the state handleDownload and its continuations leave alone
besideExport ==
    <<numPages, currentPage, scale, activeTool, showSignatureModal,
      signatureToPlace, annotations, viewerVars, canvasVars, nextId,
      presses>>

\* handleDownload up to its first await
handleDownload ==
    /\ isProcessing' = TRUE
    /\ downloads' = Append(downloads, startedDownload(annotations))
    /\ UNCHANGED <<delivered, toasts, besideExport>>

\* the download button never disabled
downloadButtonClick_neverDisabled == handleDownload

\* onClick of the download button, disabled={isProcessing}
downloadButtonClick == ~isProcessing /\ handleDownload

\* file.arrayBuffer(), PDFDocument.load and getPages have completed: the
\* document has n pages
downloadLoad(k, n) ==
    /\ downloads[k].pc = "load"
    /\ downloads' = [downloads EXCEPT ![k].pc = "signatures",
                                      ![k].pages = getPages(n)]
    /\ UNCHANGED <<isProcessing, delivered, toasts, besideExport>>

\* the signatures loop throwing on a signature without a page
downloadSignature_throwsWithoutPage(k) ==
    LET d == downloads[k] IN
    /\ d.pc = "signatures"
    /\ d.next <= Len(d.annotations.signatures)
    /\ LET signature == d.annotations.signatures[d.next] IN
       IF hasPage(d.pages, signature)
       THEN /\ downloads' =
                 [downloads EXCEPT
                     ![k].next = @ + 1,
                     ![k].drawn = Append(@, drawImage(d.pages, signature))]
            /\ UNCHANGED <<isProcessing, toasts>>
       ELSE /\ downloads' = [downloads EXCEPT ![k].pc = "failed"]
            /\ toasts' = Append(toasts, ErrorToast)
            /\ isProcessing' = FALSE
    /\ UNCHANGED <<delivered, besideExport>>

\* the signatures loop reading the store of the latest render
downloadSignature_readsStore(k) ==
    LET d == downloads[k] IN
    /\ d.pc = "signatures"
    /\ d.next <= Len(d.annotations.signatures)
    /\ downloads' =
          [downloads EXCEPT
              ![k].next = @ + 1,
              ![k].drawn =
                  IF /\ d.next <= Len(annotations.signatures)
                     /\ hasPage(d.pages, annotations.signatures[d.next])
                  THEN Append(@, drawImage(d.pages,
                                           annotations.signatures[d.next]))
                  ELSE @]
    /\ UNCHANGED <<isProcessing, delivered, toasts, besideExport>>

\* one turn of the signatures loop: fetch, embedPng and drawImage, or
\* continue for a signature without a page
downloadSignature(k) ==
    LET d == downloads[k] IN
    /\ d.pc = "signatures"
    /\ d.next <= Len(d.annotations.signatures)
    /\ LET signature == d.annotations.signatures[d.next] IN
       downloads' =
          [downloads EXCEPT
              ![k].next = @ + 1,
              ![k].drawn = IF hasPage(d.pages, signature)
                           THEN Append(@, drawImage(d.pages, signature))
                           ELSE @]
    /\ UNCHANGED <<isProcessing, delivered, toasts, besideExport>>

\* the highlights loop running before the texts loop
downloadRest_highlightsFirst(k) ==
    LET d == downloads[k] IN
    /\ d.pc = "signatures"
    /\ d.next > Len(d.annotations.signatures)
    /\ downloads' =
          [downloads EXCEPT
              ![k].pc = "save",
              ![k].drawn = @ \o highlightsDrawn(d.pages,
                                                d.annotations.highlights)
                             \o textsDrawn(d.pages, d.annotations.texts)]
    /\ UNCHANGED <<isProcessing, delivered, toasts, besideExport>>

\* the texts loop, the highlights loop and the call of pdfDoc.save()
downloadRest(k) ==
    LET d == downloads[k] IN
    /\ d.pc = "signatures"
    /\ d.next > Len(d.annotations.signatures)
    /\ downloads' =
          [downloads EXCEPT
              ![k].pc = "save",
              ![k].drawn = @ \o textsDrawn(d.pages, d.annotations.texts)
                             \o highlightsDrawn(d.pages,
                                                d.annotations.highlights)]
    /\ UNCHANGED <<isProcessing, delivered, toasts, besideExport>>

\* the catch block handing over what has been drawn so far
downloadFail_deliversDrawn(k) ==
    /\ inFlight(downloads[k])
    /\ downloads' = [downloads EXCEPT ![k].pc = "failed"]
    /\ delivered' = Append(delivered, downloads[k].drawn)
    /\ toasts' = Append(toasts, ErrorToast)
    /\ isProcessing' = FALSE
    /\ UNCHANGED besideExport

\* the catch block without the finally block
downloadFail_keepsProcessing(k) ==
    /\ inFlight(downloads[k])
    /\ downloads' = [downloads EXCEPT ![k].pc = "failed"]
    /\ toasts' = Append(toasts, ErrorToast)
    /\ UNCHANGED <<isProcessing, delivered, besideExport>>

\* an await of the try block rejects: the catch block (console.error and
\* the failure notification) and the finally block
downloadFail(k) ==
    /\ inFlight(downloads[k])
    /\ downloads' = [downloads EXCEPT ![k].pc = "failed"]
    /\ toasts' = Append(toasts, ErrorToast)
    /\ isProcessing' = FALSE
    /\ UNCHANGED <<delivered, besideExport>>

\* pdfDoc.save() has completed: the anchor click that delivers the file,
\* the success notification and the finally block
downloadSave(k) ==
    /\ downloads[k].pc = "save"
    /\ downloads' = [downloads EXCEPT ![k].pc = "done"]
    /\ delivered' = Append(delivered, downloads[k].drawn)
    /\ toasts' = Append(toasts, SuccessToast)
    /\ isProcessing' = FALSE
    /\ UNCHANGED besideExport

---------------------------------------------------------------------------
(* Export runs: placements on the pages of the document, the download      *)
(* button and the steps of the calls of handleDownload                     *)

MaxExports == 2
MaxExportIds == 1

\* the page count the document library finds in the file: the library
\* resolves the page sequence on its own, whatever the renderer has reported
FilePages == 0..MaxPages

\* a pointer position 100 to the right of and 100 below the container origin
ExportPoints == {MouseEvent(108, 108)}

ExportClick ==
    \E e \in ExportPoints : handleClick(e) /\ nextId' <= MaxExportIds + 1
DownloadButtonClick == downloadButtonClick /\ Len(downloads) < MaxExports
DownloadLoad ==
    \E k \in 1..Len(downloads) : \E n \in FilePages : downloadLoad(k, n)
DownloadSignature == \E k \in 1..Len(downloads) : downloadSignature(k)
DownloadRest == \E k \in 1..Len(downloads) : downloadRest(k)
DownloadSave == \E k \in 1..Len(downloads) : downloadSave(k)
DownloadFail == \E k \in 1..Len(downloads) : downloadFail(k)

NextExport ==
    \/ ToolChange
    \/ SignatureSave
    \/ DocumentLoad
    \/ NextPage
    \/ Reset
    \/ ExportClick
    \/ DownloadButtonClick
    \/ DownloadLoad
    \/ DownloadSignature
    \/ DownloadRest
    \/ DownloadSave
    \/ DownloadFail

SpecExport == Init /\ [][NextExport]_vars

---------------------------------------------------------------------------
(* Bake-out runs: one call of handleDownload over a store of up to         *)
(* MaxBakeIds annotations                                                  *)

MaxBakes == 1
MaxBakeIds == 2

BakeClick ==
    \E e \in ExportPoints : handleClick(e) /\ nextId' <= MaxBakeIds + 1
BakeButtonClick == downloadButtonClick /\ Len(downloads) < MaxBakes

NextBake ==
    \/ ToolChange
    \/ SignatureSave
    \/ DocumentLoad
    \/ NextPage
    \/ Reset
    \/ BakeClick
    \/ BakeButtonClick
    \/ DownloadLoad
    \/ DownloadSignature
    \/ DownloadRest
    \/ DownloadSave
    \/ DownloadFail

SpecBake == Init /\ [][NextBake]_vars

---------------------------------------------------------------------------
(* Replay runs: one call of handleDownload over every store of a family of *)
(* stores the editor can hold, with a file of any page count               *)

MaxReplays == 1

\* a signature placed at (100, 100) on page p
ReplaySignature(id, p, dataUrl) ==
    [id |-> id, x |-> 100 * Den, y |-> 100 * Den,
     width |-> DefaultSigWidth * Den, height |-> DefaultSigHeight * Den,
     dataUrl |-> dataUrl, page |-> p]

\* at most two signatures, of different rasters
ReplaySignatures ==
    {<< >>} \cup
    {<<ReplaySignature(1, p, "pngA")>> : p \in 1..MaxPages} \cup
    {<<ReplaySignature(1, p, "pngA"), ReplaySignature(5, q, "pngB")>> :
        p \in 1..MaxPages, q \in 1..MaxPages}

\* a text placed at (100, 100) on page p, with any content an input holds
ReplayText(id, p, value) ==
    [id |-> id, x |-> 100 * Den, y |-> 100 * Den, text |-> value,
     fontSize |-> DefaultFontSize, color |-> DefaultTextColor, page |-> p]

\* at most two texts; a text of blanks only is the one being edited, and
\* it is the second one
ReplayTexts ==
    {<< >>} \cup
    {<<ReplayText(2, p, v)>> : p \in 1..MaxPages, v \in InputValues} \cup
    {<<ReplayText(2, p, v), ReplayText(3, q, w)>> :
        p \in 1..MaxPages, q \in 1..MaxPages,
        v \in {u \in InputValues : u = << >> \/ trim(u) # << >>},
        w \in InputValues}

\* a highlight of w x 6 at the origin of page p
ReplayHighlight(id, p, w) ==
    [id |-> id, x |-> 0, y |-> 0, width |-> w * Den, height |-> 6 * Den,
     page |-> p]

\* at most two highlights, of 11 x 6 and of 12 x 6
ReplayHighlights ==
    {<< >>} \cup
    {<<ReplayHighlight(4, p, 11)>> : p \in 1..MaxPages} \cup
    {<<ReplayHighlight(4, p, 11), ReplayHighlight(6, q, 12)>> :
        p \in 1..MaxPages, q \in 1..MaxPages}

ReplayStores ==
    {[signatures |-> s, texts |-> t, highlights |-> h] :
        s \in ReplaySignatures, t \in ReplayTexts, h \in ReplayHighlights}

\* the text being edited: the text of blanks only, if there is one
editedIn(store) ==
    LET blanks == {i \in 1..Len(store.texts) :
                      /\ store.texts[i].text # << >>
                      /\ trim(store.texts[i].text) = << >>}
    IN  IF blanks = {} THEN NoId
        ELSE store.texts[CHOOSE i \in blanks : TRUE].id

\* the editor after the document has loaded and the store has been filled,
\* with the select tool
InitReplay ==
    /\ numPages = MaxPages
    /\ currentPage \in 1..MaxPages
    /\ scale = InitialScale
    /\ activeTool = "select"
    /\ showSignatureModal = FALSE
    /\ signatureToPlace = NoStamp
    /\ isProcessing = FALSE
    /\ downloads = << >>
    /\ delivered = << >>
    /\ toasts = << >>
    /\ NoCanvas
    /\ annotations \in ReplayStores
    /\ editingTextId = editedIn(annotations)
    /\ editingTextId # NoId =>
          \E i \in rendered(annotations.texts) :
             annotations.texts[i].id = editingTextId
    /\ highlightStart = None
    /\ tempHighlight = None
    /\ draggingId = NoId
    /\ dragOffset = [x |-> 0, y |-> 0]
    /\ resizing = None
    /\ nextId = 7
    /\ presses = 0

ReplayButtonClick == downloadButtonClick /\ Len(downloads) < MaxReplays

NextReplay ==
    \/ ReplayButtonClick
    \/ DownloadLoad
    \/ DownloadSignature
    \/ DownloadRest
    \/ DownloadSave
    \/ DownloadFail

SpecReplay == InitReplay /\ [][NextReplay]_vars

---------------------------------------------------------------------------
(* Claims about the export *)

calls(states) == {k \in 1..Len(downloads) : downloads[k].pc \in states}
pending == calls({"load", "signatures", "save"})

\* C18: at most one call of handleDownload is in flight at any time, and the
\* processing flag is set exactly while one is; while the flag is set no
\* step starts a call, so a second export starts only after the previous
\* one has completed or failed.
C18_OneExportInFlight ==
    /\ [](/\ Cardinality(pending) <= 1
          /\ isProcessing <=> pending # {})
    /\ [][isProcessing => Len(downloads') = Len(downloads)]_vars

\* a second export in flight after the first one has failed
C18_Witness ==
    /\ Len(downloads) = 2
    /\ downloads[1].pc = "failed"
    /\ downloads[2].pc = "save"
    /\ isProcessing

\* C19: a failing step of an export delivers no file, shows one failure
\* notification and leaves the annotation store as it is; the files
\* delivered are those of the calls that ran to their end, so a call that
\* failed has delivered nothing, whatever it had drawn.
C19_FailureDeliversNothing ==
    /\ [](/\ Len(delivered) = Cardinality(calls({"done"}))
          /\ Len(toasts) = Cardinality(calls({"done", "failed"}))
          /\ Cardinality({i \in 1..Len(toasts) : toasts[i] = ErrorToast})
               = Cardinality(calls({"failed"})))
    /\ [][\A k \in 1..Len(downloads) :
            downloadFail(k) =>
               /\ delivered' = delivered
               /\ toasts' = Append(toasts, ErrorToast)
               /\ annotations' = annotations]_vars

\* an export that failed after it had drawn a signature: nothing delivered,
\* one failure notification, the signature still in the store
C19_Witness ==
    /\ Len(downloads) = 1
    /\ downloads[1].pc = "failed"
    /\ downloads[1].drawn # << >>
    /\ delivered = << >>
    /\ toasts = <<ErrorToast>>
    /\ annotations = downloads[1].annotations

isImage(o) == o.op = "drawImage"

\* the image is the signature s drawn on its page, flipped to the
\* bottom-left origin of a page of the given height
drawnFlipped(image, s, height) ==
    /\ image.page = s.page
    /\ image.image = s.dataUrl
    /\ image.x = s.x
    /\ image.y = height * Den - s.y - s.height
    /\ image.width = s.width
    /\ image.height = s.height
    /\ (/\ s.x = 100 * Den /\ s.y = 100 * Den
        /\ s.width = 150 * Den /\ s.height = 60 * Den)
          => image.y = (height - 160) * Den

\* C20: once the signatures loop of an export is through, the images drawn
\* are, in the order of the store, the signatures whose page exists, each on
\* page annotation.page at x = annotation.x and
\* y = pageHeight - annotation.y - annotation.height with the width and
\* height of the annotation; a signature at (100, 100) of 150 x 60 on a
\* page of height H is drawn at y = H - 160.  A delivered file holds these
\* images.
C20_SignaturesDrawnFlipped ==
    \A k \in calls({"save", "done"}) :
        LET d == downloads[k]
            onPage(s) == s.page \in 1..Len(d.pages)
            due == SelectSeq(d.annotations.signatures, onPage)
            images == SelectSeq(d.drawn, isImage)
        IN  /\ Len(images) = Len(due)
            /\ \A i \in 1..Len(due) :
                 drawnFlipped(images[i], due[i], PageHeight(due[i].page))
            /\ d.pc = "done" => \E f \in 1..Len(delivered) :
                                   delivered[f] = d.drawn

\* a delivered file with the signatures of pages 1 and 2, placed at
\* (100, 100), drawn at 792 - 160 and at 842 - 160
C20_Witness ==
    /\ Len(delivered) = 1
    /\ Len(delivered[1]) = 2
    /\ delivered[1][1].page = 1
    /\ delivered[1][1].y = (792 - 160) * Den
    /\ delivered[1][2].page = 2
    /\ delivered[1][2].y = (842 - 160) * Den

isText(o) == o.op = "drawText"

\* the operation is the text t drawn on its page, flipped to the
\* bottom-left origin of a page of the given height
textDrawnFlipped(o, t, height) ==
    /\ o.page = t.page
    /\ o.text = t.text
    /\ o.x = t.x
    /\ o.y = height * Den - t.y - t.fontSize * Den
    /\ o.size = t.fontSize

\* C21: once the texts loop of an export is through, the texts drawn are,
\* in the order of the store, exactly the texts whose content is not empty
\* after trimming and whose page exists, each at x = annotation.x and
\* y = pageHeight - annotation.y - annotation.fontSize with the font size
\* of the annotation; a blank text is not drawn, and the loop goes on to
\* the save whatever blank texts the store holds.
C21_TextsDrawnUnlessBlank ==
    /\ [](\A k \in calls({"save", "done"}) :
            LET d == downloads[k]
                due(t) == /\ trim(t.text) # << >>
                          /\ t.page \in 1..Len(d.pages)
                dueTexts == SelectSeq(d.annotations.texts, due)
                drawnTexts == SelectSeq(d.drawn, isText)
            IN  /\ Len(drawnTexts) = Len(dueTexts)
                /\ \A i \in 1..Len(dueTexts) :
                     textDrawnFlipped(drawnTexts[i], dueTexts[i],
                                      PageHeight(dueTexts[i].page)))
    /\ [][\A k \in 1..Len(downloads) :
            downloadRest(k) => downloads'[k].pc = "save"]_vars

\* a delivered file of a store with an empty text and a text "a" on page 2:
\* the file holds the one text, drawn at 842 - 100 - 16
C21_Witness ==
    /\ Len(delivered) = 1
    /\ Len(downloads[1].annotations.texts) = 2
    /\ downloads[1].annotations.texts[1].text = << >>
    /\ downloads[1].annotations.texts[2].text = <<"a">>
    /\ downloads[1].annotations.texts[2].page = 2
    /\ Len(SelectSeq(delivered[1], isText)) = 1
    /\ SelectSeq(delivered[1], isText)[1].y = (842 - 100 - 16) * Den

isRectangle(o) == o.op = "drawRectangle"

\* the operation is the highlight h drawn as a rectangle on its page,
\* flipped to the bottom-left origin of a page of the given height
rectangleDrawnFlipped(o, h, height) ==
    /\ o.page = h.page
    /\ o.x = h.x
    /\ o.y = height * Den - h.y - h.height
    /\ o.width = h.width
    /\ o.height = h.height
    /\ o.opacity * 10 = 4 * 100

\* C22: once the highlights loop of an export is through, the rectangles
\* drawn are, in the order of the store, the highlights whose page exists,
\* one rectangle each, on page annotation.page at x = annotation.x and
\* y = pageHeight - annotation.y - annotation.height with the width and
\* height of the annotation and opacity 0.4.
C22_HighlightsDrawnFlipped ==
    \A k \in calls({"save", "done"}) :
        LET d == downloads[k]
            onPage(h) == h.page \in 1..Len(d.pages)
            due == SelectSeq(d.annotations.highlights, onPage)
            rectangles == SelectSeq(d.drawn, isRectangle)
        IN  /\ Len(rectangles) = Len(due)
            /\ \A i \in 1..Len(due) :
                 rectangleDrawnFlipped(rectangles[i], due[i],
                                       PageHeight(due[i].page))

\* a delivered file with the highlight of page 2, 11 x 6 at the origin,
\* drawn at 842 - 0 - 6
C22_Witness ==
    /\ Len(delivered) = 1
    /\ Len(SelectSeq(delivered[1], isRectangle)) = 1
    /\ SelectSeq(delivered[1], isRectangle)[1].page = 2
    /\ SelectSeq(delivered[1], isRectangle)[1].y = (842 - 6) * Den
    /\ SelectSeq(delivered[1], isRectangle)[1].width = 11 * Den

\* the pages of the annotations of s that have a page among the first n
pagesDue(s, n) ==
    LET onPage(a) == a.page \in 1..n
        due == SelectSeq(s, onPage)
    IN  [i \in 1..Len(due) |-> due[i].page]

pagesDrawn(drawn, op) ==
    LET isOp(o) == o.op = op
        ops == SelectSeq(drawn, isOp)
    IN  [i \in 1..Len(ops) |-> ops[i].page]

notBlank(t) == trim(t.text) # << >>

\* C23: an annotation whose page index has no page in the loaded document
\* is skipped alone and silently.  The turn of a loop that meets it shows no
\* notification and does not end the export; when the loops are through,
\* every signature, non-blank text and highlight whose page exists has been
\* drawn on its page and nothing else has; and the export that runs to its
\* end delivers this file with the success notification.
C23_MissingPageSkipped ==
    /\ [](\A k \in calls({"save", "done"}) :
            LET d == downloads[k]
                n == Len(d.pages)
            IN  /\ pagesDrawn(d.drawn, "drawImage")
                     = pagesDue(d.annotations.signatures, n)
                /\ pagesDrawn(d.drawn, "drawText")
                     = pagesDue(SelectSeq(d.annotations.texts, notBlank), n)
                /\ pagesDrawn(d.drawn, "drawRectangle")
                     = pagesDue(d.annotations.highlights, n)
                /\ Len(d.drawn)
                     = Len(pagesDue(d.annotations.signatures, n))
                       + Len(pagesDue(SelectSeq(d.annotations.texts,
                                                notBlank), n))
                       + Len(pagesDue(d.annotations.highlights, n)))
    /\ [][\A k \in 1..Len(downloads) :
            /\ (downloadSignature(k) \/ downloadRest(k)) =>
                  /\ toasts' = toasts
                  /\ downloads'[k].pc \in {"signatures", "save"}
            /\ downloadSave(k) =>
                  /\ delivered' = Append(delivered, downloads[k].drawn)
                  /\ toasts' = Append(toasts, SuccessToast)]_vars

\* a document of one page and a store with a signature on page 2 and a
\* highlight on page 1: the file delivered holds the rectangle alone, and
\* the notification is the one of success
C23_Witness ==
    /\ Len(downloads) = 1
    /\ downloads[1].pc = "done"
    /\ Len(downloads[1].pages) = 1
    /\ Len(downloads[1].annotations.signatures) = 1
    /\ downloads[1].annotations.signatures[1].page = 2
    /\ Len(downloads[1].annotations.highlights) = 1
    /\ downloads[1].annotations.highlights[1].page = 1
    /\ downloads[1].annotations.texts = << >>
    /\ Len(delivered) = 1
    /\ Len(delivered[1]) = 1
    /\ delivered[1][1].op = "drawRectangle"
    /\ toasts = <<SuccessToast>>

---------------------------------------------------------------------------
(* The conversion of getRelativePosition in binary64 *)

\* the number next to c, above it (up) or below it
Neighbour(c, up) ==
    IF up
    THEN IF \A i \in 1..SignificandBits : c.sig[i] = 1
         THEN [sig |-> <<1>> \o Zeros(SignificandBits - 1), exp |-> c.exp + 1]
         ELSE [sig |-> Increment(c.sig), exp |-> c.exp]
    ELSE IF \A i \in 2..SignificandBits : c.sig[i] = 0
         THEN [sig |-> [i \in 1..SignificandBits |-> 1], exp |-> c.exp - 1]
         ELSE [sig |-> Decrement(c.sig), exp |-> c.exp]

\* the JavaScript number of a document-space length: the quotient of
\* getRelativePosition rounded to binary64
Number(len) == Float64(len, Den)

\* the result of getRelativePosition times the scale plus the origin
backToPointer(e) ==
    [x |-> Plus(Times(Number(Pos(e).x), scale, 2), ContainerRect.left),
     y |-> Plus(Times(Number(Pos(e).y), scale, 2), ContainerRect.top)]

pointerOf(e) == [x |-> Float64(e.clientX, 1), y |-> Float64(e.clientY, 1)]

nextTo(a, c) == a \in {c, Neighbour(c, TRUE), Neighbour(c, FALSE)}

\* the conversion is the quotient of the offset by the scale
isQuotient(e) ==
    /\ Pos(e).x * scale = (e.clientX - ContainerRect.left) * 4 * Den
    /\ Pos(e).y * scale = (e.clientY - ContainerRect.top) * 4 * Den

---------------------------------------------------------------------------
(* SignatureCanvas: the rasterizer of the signature modal.  The painted    *)
(* pixels are kept as marks: a mark is the box of pixels one drawing call  *)
(* has made non-transparent and the kind of the call (freehand stroke or   *)
(* generated text).  The width of the pen and the smoothing of the curves  *)
(* are left out: a stroke paints the box of its points.  The device pixel  *)
(* ratio is 1.                                                             *)

\* getBoundingClientRect of the container: its origin
CanvasRect == [left |-> 40, top |-> 40]

\* getCoordinates
getCoordinates(e) ==
    [x |-> e.clientX - CanvasRect.left, y |-> e.clientY - CanvasRect.top]

MinOf(S) == CHOOSE v \in S : \A w \in S : v <= w
MaxOf(S) == CHOOSE v \in S : \A w \in S : v >= w

\* the pixels a path through the points of ps makes non-transparent
strokeMark(ps) ==
    [kind |-> "stroke",
     minX |-> MinOf({p.x : p \in ps}), minY |-> MinOf({p.y : p \in ps}),
     maxX |-> MaxOf({p.x : p \in ps}), maxY |-> MaxOf({p.y : p \in ps})]

\* the pixels of a mark that lie on a bitmap of w x h
onBitmap(m, w, h) == m.minX < w /\ m.minY < h

\* stroke() on the canvas: the part of the path on the bitmap is painted
painted(c, m) ==
    IF onBitmap(m, c.width, c.height)
    THEN [c EXCEPT !.marks = @ \cup
             {[m EXCEPT !.maxX = Min(@, c.width - 1),
                        !.maxY = Min(@, c.height - 1)]}]
    ELSE c

\* ctx.clearRect(0, 0, rect.width, rect.height): a mark that reaches beyond
\* the rectangle keeps the pixels out there
clearRect(c) ==
    [c EXCEPT !.marks =
        {m \in @ : m.maxX >= c.rect.width \/ m.maxY >= c.rect.height}]

\* setupCanvas: assigning canvas.width and canvas.height resets the bitmap
setupCanvas(c) ==
    [c EXCEPT !.width = c.rect.width, !.height = c.rect.height,
              !.marks = {}]

\* the state setupCanvas, the canvas handlers and handleSave leave alone
besideCanvas ==
    <<numPages, currentPage, scale, activeTool, exportVars, annotations,
      viewerVars, nextId, presses>>

\* React renders the modal: a new instance in a container of the given
\* size; the effect starts setTimeout(setupCanvas, 50)
mountCanvas(rect) ==
    /\ showSignatureModal
    /\ ~mounted
    /\ mounted' = TRUE
    /\ setupTimer' = TRUE
    /\ canvas' = newCanvas(rect)
    /\ UNCHANGED <<isDrawing, hasContent, canvasReady, selectedColor,
                   signatureText, activeTab, points, stamps,
                   showSignatureModal, signatureToPlace, besideCanvas>>

\* the exit animation of the closed modal has ended: the instance is gone
exitComplete ==
    /\ mounted
    /\ ~showSignatureModal
    /\ mounted' = FALSE
    /\ isDrawing' = FALSE
    /\ hasContent' = FALSE
    /\ canvasReady' = FALSE
    /\ selectedColor' = InitialColor
    /\ signatureText' = << >>
    /\ activeTab' = "draw"
    /\ setupTimer' = FALSE
    /\ canvas' = newCanvas([width |-> 0, height |-> 0])
    /\ points' = << >>
    /\ UNCHANGED <<stamps, showSignatureModal, signatureToPlace,
                   besideCanvas>>

\* the timer of the effect runs setupCanvas
setupTimerFires ==
    /\ mounted
    /\ setupTimer
    /\ setupTimer' = FALSE
    /\ canvas' = setupCanvas(canvas)
    /\ canvasReady' = TRUE
    /\ UNCHANGED <<mounted, isDrawing, hasContent, selectedColor,
                   signatureText, activeTab, points, stamps,
                   showSignatureModal, signatureToPlace, besideCanvas>>

\* the resize listener of the window runs setupCanvas; the container has
\* the given size now
windowResize(rect) ==
    /\ mounted
    /\ canvas' = setupCanvas([canvas EXCEPT !.rect = rect])
    /\ canvasReady' = TRUE
    /\ UNCHANGED <<mounted, isDrawing, hasContent, selectedColor,
                   signatureText, activeTab, setupTimer, points, stamps,
                   showSignatureModal, signatureToPlace, besideCanvas>>

\* onClick of a colour button: setSelectedColor; a new colour makes a new
\* setupCanvas, and the effect that depends on it starts its timer again
colorClick(color) ==
    /\ mounted
    /\ selectedColor' = color
    /\ setupTimer' = (setupTimer \/ color # selectedColor)
    /\ UNCHANGED <<mounted, isDrawing, hasContent, canvasReady,
                   signatureText, activeTab, canvas, points, stamps,
                   showSignatureModal, signatureToPlace, besideCanvas>>

\* onMouseDown / onTouchStart of the canvas
startDrawing(e) ==
    /\ mounted
    /\ IF ~canvasReady
       THEN UNCHANGED <<points, isDrawing>>
       ELSE /\ points' = <<getCoordinates(e)>>
            /\ isDrawing' = TRUE
    /\ UNCHANGED <<mounted, hasContent, canvasReady, selectedColor,
                   signatureText, activeTab, setupTimer, canvas, stamps,
                   showSignatureModal, signatureToPlace, besideCanvas>>

\* onMouseMove / onTouchMove of the canvas
draw(e) ==
    /\ mounted
    /\ IF ~isDrawing \/ ~canvasReady \/ points = << >>
       THEN UNCHANGED <<points, canvas, hasContent>>
       ELSE LET p == getCoordinates(e)
                ps == Append(points, p)
                len == Len(ps)
            IN  /\ points' = ps
                /\ canvas' =
                     IF len >= 3
                     THEN painted(canvas, strokeMark(
                             {ps[len - 2], ps[len - 1],
                              [x |-> (ps[len - 1].x + p.x) \div 2,
                               y |-> (ps[len - 1].y + p.y) \div 2]}))
                     ELSE painted(canvas, strokeMark({points[Len(points)], p}))
                /\ hasContent' = TRUE
    /\ UNCHANGED <<mounted, isDrawing, canvasReady, selectedColor,
                   signatureText, activeTab, setupTimer, stamps,
                   showSignatureModal, signatureToPlace, besideCanvas>>

\* onMouseUp / onMouseLeave / onTouchEnd of the canvas
stopDrawing ==
    /\ mounted
    /\ canvas' =
          IF isDrawing /\ Len(points) >= 2
          THEN painted(canvas, strokeMark({points[Len(points) - 1],
                                           points[Len(points)]}))
          ELSE canvas
    /\ isDrawing' = FALSE
    /\ points' = << >>
    /\ UNCHANGED <<mounted, hasContent, canvasReady, selectedColor,
                   signatureText, activeTab, setupTimer, stamps,
                   showSignatureModal, signatureToPlace, besideCanvas>>

\* onClick of the Clear button
clearCanvas ==
    /\ mounted
    /\ canvas' = clearRect(canvas)
    /\ hasContent' = FALSE
    /\ UNCHANGED <<mounted, isDrawing, canvasReady, selectedColor,
                   signatureText, activeTab, setupTimer, points, stamps,
                   showSignatureModal, signatureToPlace, besideCanvas>>

\* onChange of the name input of the Type tab
signatureTextChange(value) ==
    /\ mounted
    /\ activeTab = "type"
    /\ signatureText' = value
    /\ UNCHANGED <<mounted, isDrawing, hasContent, canvasReady,
                   selectedColor, activeTab, setupTimer, canvas, points,
                   stamps, showSignatureModal, signatureToPlace,
                   besideCanvas>>

\* the boxes fillText, strokeText and the underline can fill around the
\* centre of a container: the extent depends on the fonts of the device
textBoxes(rect) ==
    {[minX |-> rect.width \div 2 - dx, minY |-> rect.height \div 2 - dy,
      maxX |-> rect.width \div 2 + dx, maxY |-> rect.height \div 2 + dy] :
        dx \in {rect.width \div 4, rect.width \div 2 - 10},
        dy \in {rect.height \div 5}}

\* onClick of the Generate button of the Type tab,
\* disabled={!signatureText.trim()}
generateCursiveSignature(box) ==
    /\ mounted
    /\ activeTab = "type"
    /\ trim(signatureText) # << >>
    /\ canvas' = painted(clearRect(canvas),
                         [kind |-> "typed", minX |-> box.minX,
                          minY |-> box.minY, maxX |-> box.maxX,
                          maxY |-> box.maxY])
    /\ hasContent' = TRUE
    /\ UNCHANGED <<mounted, isDrawing, canvasReady, selectedColor,
                   signatureText, activeTab, setupTimer, points, stamps,
                   showSignatureModal, signatureToPlace, besideCanvas>>

\* onValueChange of the tabs: the other tab has been chosen
handleTabChange(value) ==
    /\ mounted
    /\ value # activeTab
    /\ activeTab' = value
    /\ canvas' = clearRect(canvas)
    /\ hasContent' = FALSE
    /\ UNCHANGED <<mounted, isDrawing, canvasReady, selectedColor,
                   signatureText, setupTimer, points, stamps,
                   showSignatureModal, signatureToPlace, besideCanvas>>

\* the scan of getImageData for the pixels with alpha > 0
boundsOf(c) ==
    [minX |-> MinOf({c.width} \cup {m.minX : m \in c.marks}),
     minY |-> MinOf({c.height} \cup {m.minY : m \in c.marks}),
     maxX |-> MaxOf({0} \cup {m.maxX : m \in c.marks}),
     maxY |-> MaxOf({0} \cup {m.maxY : m \in c.marks})]

Padding == 20

\* the bounds with the padding added, not kept within the bitmap
cropOf_unclamped(c) ==
    LET b == boundsOf(c)
    IN  [minX |-> b.minX - Padding, minY |-> b.minY - Padding,
         maxX |-> b.maxX + Padding, maxY |-> b.maxY + Padding]

\* the bounds with the padding added, within the bitmap
cropOf(c) ==
    LET b == boundsOf(c)
    IN  [minX |-> Max(0, b.minX - Padding),
         minY |-> Max(0, b.minY - Padding),
         maxX |-> Min(c.width, b.maxX + Padding),
         maxY |-> Min(c.height, b.maxY + Padding)]

\* assigning v to the width or height of a canvas element: v is taken as
\* an unsigned long, and a value above 2^31 - 1, which a negative v gives,
\* is replaced by the default size of the element
dimension(v, default) == IF v >= 0 THEN v ELSE default

\* the cropped canvas of handleSave: the cropped region, the size of the
\* canvas and the kinds of the marks drawn onto it
croppedCanvas(c) ==
    LET crop == cropOf(c)
    IN  [minX |-> crop.minX, minY |-> crop.minY,
         maxX |-> crop.maxX, maxY |-> crop.maxY,
         width |-> dimension(crop.maxX - crop.minX, 300),
         height |-> dimension(crop.maxY - crop.minY, 150),
         kinds |-> {m.kind : m \in c.marks}]

\* onClick of the Apply Signature button, disabled={!hasContent};
\* dataUrl is the PNG encoding of the cropped canvas
handleSave(dataUrl) ==
    /\ mounted
    /\ hasContent
    /\ stamps' = Append(stamps, croppedCanvas(canvas))
    /\ onSave(dataUrl)
    /\ UNCHANGED <<mounted, isDrawing, hasContent, canvasReady,
                   selectedColor, signatureText, activeTab, setupTimer,
                   canvas, points, besideCanvas>>

---------------------------------------------------------------------------
(* Rasterizer runs: the signature modal from its opening to its closing,   *)
(* with strokes, generated text, tab and colour changes and resizes        *)

MaxStamps == 1
MaxStrokePoints == 3
MaxMarks == 2

\* the sizes of the container
ContainerSizes ==
    {[width |-> 200, height |-> 200], [width |-> 120, height |-> 100]}

\* pointer positions at (10, 10) and (90, 40) of the canvas
CanvasPoints == {MouseEvent(50, 50), MouseEvent(130, 80)}

CanvasColors == {InitialColor, "#2563eb"}

SignToolClick == handleToolChange("sign")
MountCanvas == \E rect \in ContainerSizes : mountCanvas(rect)
ExitComplete == exitComplete
SetupTimerFires == setupTimerFires
WindowResize == \E rect \in ContainerSizes : windowResize(rect)
ColorClick == \E color \in CanvasColors : colorClick(color)
StartDrawing == \E e \in CanvasPoints : startDrawing(e)
Draw ==
    \E e \in CanvasPoints :
        /\ draw(e)
        /\ Len(points) < MaxStrokePoints
        /\ Cardinality(canvas'.marks) <= MaxMarks
StopDrawing == stopDrawing /\ Cardinality(canvas'.marks) <= MaxMarks
ClearCanvas == clearCanvas
\* the values of the name input: empty and a letter
NameValues == {<< >>, <<"a">>}
SignatureTextChange == \E value \in NameValues : signatureTextChange(value)
Generate == \E box \in textBoxes(canvas.rect) : generateCursiveSignature(box)
TabChange == \E value \in {"draw", "type"} : handleTabChange(value)
Save == \E dataUrl \in DataUrls : handleSave(dataUrl) /\ Len(stamps) < MaxStamps

NextCanvas ==
    \/ SignToolClick
    \/ CloseModal
    \/ MountCanvas
    \/ ExitComplete
    \/ SetupTimerFires
    \/ WindowResize
    \/ ColorClick
    \/ StartDrawing
    \/ Draw
    \/ StopDrawing
    \/ ClearCanvas
    \/ SignatureTextChange
    \/ Generate
    \/ TabChange
    \/ Save

SpecCanvas == Init /\ [][NextCanvas]_vars

---------------------------------------------------------------------------
(* Claims about the rasterizer *)

\* the smallest and the largest column and row with a painted pixel
leftmost == MinOf({m.minX : m \in canvas.marks})
topmost == MinOf({m.minY : m \in canvas.marks})
rightmost == MaxOf({m.maxX : m \in canvas.marks})
bottommost == MaxOf({m.maxY : m \in canvas.marks})

lastStamp == stamps[Len(stamps)]

\* C24: a save of a surface of W x H with painted pixels hands on the
\* region from (max(0, minX - 20), max(0, minY - 20)) to
\* (min(W, maxX + 20), min(H, maxY + 20)), minX, minY, maxX, maxY being the
\* bounds of the painted pixels; for pixels bounded by (10, 10) and
\* (90, 40) on a surface of 200 x 200 the region is (0, 0) to (110, 60).
C24_CropPaddedAndClamped ==
    [][(Len(stamps') = Len(stamps) + 1 /\ canvas.marks # {}) =>
            /\ lastStamp'.minX = Max(0, leftmost - 20)
            /\ lastStamp'.minY = Max(0, topmost - 20)
            /\ lastStamp'.maxX = Min(canvas.width, rightmost + 20)
            /\ lastStamp'.maxY = Min(canvas.height, bottommost + 20)
            /\ lastStamp'.width = lastStamp'.maxX - lastStamp'.minX
            /\ lastStamp'.height = lastStamp'.maxY - lastStamp'.minY
            /\ (/\ canvas.width = 200 /\ canvas.height = 200
                /\ leftmost = 10 /\ topmost = 10
                /\ rightmost = 90 /\ bottommost = 40)
                  => /\ lastStamp'.minX = 0 /\ lastStamp'.minY = 0
                     /\ lastStamp'.maxX = 110 /\ lastStamp'.maxY = 60]_vars

\* a stroke from (10, 10) to (90, 40) on a surface of 200 x 200, saved as
\* the region (0, 0) to (110, 60)
C24_Witness ==
    /\ Len(stamps) = 1
    /\ canvas.width = 200
    /\ canvas.height = 200
    /\ canvas.marks # {}
    /\ leftmost = 10 /\ topmost = 10 /\ rightmost = 90 /\ bottommost = 40
    /\ stamps[1].minX = 0 /\ stamps[1].minY = 0
    /\ stamps[1].maxX = 110 /\ stamps[1].maxY = 60
    /\ stamps[1].width = 110 /\ stamps[1].height = 60

\* C25: while the surface has no painted pixel no step hands a raster to
\* onSave and no step changes the pending stamp.
C25_EmptySurfaceNoOutput ==
    [][(mounted /\ canvas.marks = {}) =>
          /\ stamps' = stamps
          /\ signatureToPlace' = signatureToPlace]_vars

\* C26: a change of the tab clears the surface and resets hasContent, and
\* no raster handed to onSave holds both a freehand stroke and generated
\* text.
C26_ModesNeverCompose ==
    /\ [](\A i \in 1..Len(stamps) : stamps[i].kinds # {"stroke", "typed"})
    /\ [][activeTab' # activeTab =>
             (canvas'.marks = {} /\ ~hasContent')]_vars

---------------------------------------------------------------------------
(* Clicks on the page, on annotations and on their delete controls, under  *)
(* every tool                                                              *)

NextDelete ==
    \/ ToolChange
    \/ SignatureSave
    \/ Click
    \/ MouseDown
    \/ MouseMove
    \/ MouseUp
    \/ HighlightClick
    \/ SignatureDeleteClick
    \/ TextDeleteClick
    \/ TextDisplayClick
    \/ TextInputBlur

SpecDelete == Init /\ [][NextDelete]_vars

\* every annotation of s is, by its id, still in t
keptIn(s, t) ==
    \A i \in 1..Len(s) : \E j \in 1..Len(t) : t[j].id = s[i].id

---------------------------------------------------------------------------
(* Page navigation before and after the document load, with annotations of *)
(* every kind created on the page shown                                    *)

NextPages ==
    \/ ToolChange
    \/ SignatureSave
    \/ DocumentLoad
    \/ PreviousPage
    \/ NextPage
    \/ Click
    \/ MouseDown
    \/ MouseMove
    \/ MouseUp

SpecPages == Init /\ [][NextPages]_vars

pagesOf(s) == {s[i].page : i \in 1..Len(s)}

\* C28: in every reachable state the current page is an integer of at
\* least 1 and the page of every signature, text and highlight of the store
\* is a positive integer, whatever the order of page navigation, document
\* load and annotation creation, before the page count is known included.
C28_PagesPositive ==
    /\ currentPage \in Nat
    /\ currentPage >= 1
    /\ \A p \in pagesOf(annotations.signatures) \cup
               pagesOf(annotations.texts) \cup
               pagesOf(annotations.highlights) : p \in Nat /\ p >= 1

\* back on page 1 after a highlight was created on page 2 and before an
\* annotation of another kind was created on page 1
C28_Witness ==
    /\ numPages = MaxPages
    /\ currentPage = 1
    /\ pagesOf(annotations.highlights) = {2}
    /\ pagesOf(annotations.signatures) \cup pagesOf(annotations.texts) = {1}

---------------------------------------------------------------------------
(* The pending stamp: up to MaxSaves saves of the signature modal, the     *)
(* second one also while the closed modal is still leaving the screen, and *)
(* placements in between                                                   *)

MaxSaves == 2

StampDraw == Draw /\ Len(stamps) < MaxSaves
StampSave ==
    \E dataUrl \in DataUrls : handleSave(dataUrl) /\ Len(stamps) < MaxSaves

NextStamp ==
    \/ SignToolClick
    \/ MountCanvas
    \/ ExitComplete
    \/ SetupTimerFires
    \/ StartDrawing
    \/ StampDraw
    \/ StopDrawing
    \/ StampSave
    \/ Click

SpecStamp == Init /\ [][NextStamp]_vars

placed == annotations.signatures

\* C29: a save of the signature modal makes its raster the pending stamp,
\* whatever was pending before; the pending stamp is one slot: a placement
\* places the raster saved last and leaves nothing pending, so an unplaced
\* stamp is gone once a second one is saved.
C29_SaveReplacesPending ==
    [][/\ \A dataUrl \in DataUrls :
            handleSave(dataUrl) => signatureToPlace' = dataUrl
       /\ Len(placed') = Len(placed) + 1 =>
            /\ placed'[Len(placed')].dataUrl = signatureToPlace
            /\ signatureToPlace' = NoStamp]_vars

\* two rasters were saved and none was placed: the second one is pending
C29_Witness ==
    /\ Len(stamps) = MaxSaves
    /\ nextId = 1
    /\ placed = << >>
    /\ signatureToPlace = "pngB"

---------------------------------------------------------------------------
(* Claims about the rubber band in progress *)

\* a rubber-band gesture is in progress: the pointer went down under the
\* highlight tool, which is still the tool
bandInProgress == highlightStart # None /\ activeTool = "highlight"

smaller(a, b) == IF a <= b THEN a ELSE b
larger(a, b) == IF a >= b THEN a ELSE b

---------------------------------------------------------------------------
(* Edit sessions of texts: creation, the click that opens the input, typing *)
(* and the blur or Enter that closes it; no delete control and no reset     *)

NextEdit ==
    \/ ToolChange
    \/ Click
    \/ TextDisplayClick
    \/ TextInputChange
    \/ TextInputBlur
    \/ TextInputKeyDown

SpecEdit == Init /\ [][NextEdit]_vars

blankTexts(store) ==
    {i \in 1..Len(store.texts) : trim(store.texts[i].text) = << >>}

\* C31: in every reachable state a text of the store whose trimmed content
\* is empty is the text being edited; while no text is edited the store
\* holds no blank text.
C31_BlankOnlyWhileEdited ==
    \A i \in blankTexts(annotations) :
        editingTextId = annotations.texts[i].id

\* C31, as the code has it: the step that ends an edit session (blur or
\* Enter) leaves no text of the edited id with empty trimmed content, and
\* removes nothing else; a blank text that is not edited is one whose
\* input has not been closed since the content became blank.
C31_BlankRemovedAtSessionEnd ==
    [][(editingTextId # NoId /\ editingTextId' = NoId) =>
          /\ \A i \in blankTexts(annotations') :
                annotations'.texts[i].id # editingTextId
          /\ \A i \in 1..Len(annotations.texts) :
                (annotations.texts[i].id # editingTextId
                 \/ i \notin blankTexts(annotations)) =>
                    \E j \in 1..Len(annotations'.texts) :
                        annotations'.texts[j] = annotations.texts[i]]_vars

\* the first text was removed at the end of its edit session; the second
\* one, created blank and never opened, is in the store with no text edited
C31_Witness ==
    /\ nextId = 3
    /\ editingTextId = NoId
    /\ Len(annotations.texts) = 1
    /\ annotations.texts[1].id = 2
    /\ annotations.texts[1].text = << >>

---------------------------------------------------------------------------
(* Claims about the order of the drawing operations of an export *)

\* the operation o draws the signature, the text, the highlight a
imageOf(o, a) == isImage(o) /\ drawnFlipped(o, a, PageHeight(a.page))
textOf(o, a) == isText(o) /\ textDrawnFlipped(o, a, PageHeight(a.page))
rectangleOf(o, a) ==
    isRectangle(o) /\ rectangleDrawnFlipped(o, a, PageHeight(a.page))

\* due are the places in the store of the annotations that are drawn and
\* ops[i] the places in the sequence of operations of those that draw the
\* annotation at i: for i before j, an operation of i is issued before one
\* of j, and none that is j's alone before one that is i's alone
inStoreOrder(due, ops) ==
    \A i, j \in due :
        i < j =>
            /\ \E m \in ops[i], n \in ops[j] : m < n
            /\ \A m \in ops[i] \ ops[j], n \in ops[j] \ ops[i] : m < n

\* C32: within each kind an export draws in the order of the store: for a
\* before b among the signatures (the texts, the highlights), both drawn,
\* the operation that draws a is issued before the one that draws b.
C32_DrawnInStoreOrder ==
    \A k \in calls({"save", "done"}) :
        LET d == downloads[k]
            signatures == d.annotations.signatures
            texts == d.annotations.texts
            highlights == d.annotations.highlights
            places == 1..Len(d.drawn)
            onPage(a) == a.page \in 1..Len(d.pages)
        IN  /\ inStoreOrder(
                  {i \in 1..Len(signatures) : onPage(signatures[i])},
                  [i \in 1..Len(signatures) |->
                      {m \in places : imageOf(d.drawn[m], signatures[i])}])
            /\ inStoreOrder(
                  {i \in 1..Len(texts) :
                      notBlank(texts[i]) /\ onPage(texts[i])},
                  [i \in 1..Len(texts) |->
                      {m \in places : textOf(d.drawn[m], texts[i])}])
            /\ inStoreOrder(
                  {i \in 1..Len(highlights) : onPage(highlights[i])},
                  [i \in 1..Len(highlights) |->
                      {m \in places :
                          rectangleOf(d.drawn[m], highlights[i])}])

\* a delivered file of a store whose signatures and highlights are on page
\* 2 and then on page 1: the images and the rectangles in that order
C32_Witness ==
    /\ Len(delivered) = 1
    /\ Len(SelectSeq(delivered[1], isImage)) = 2
    /\ SelectSeq(delivered[1], isImage)[1].image = "pngA"
    /\ SelectSeq(delivered[1], isImage)[1].page = 2
    /\ SelectSeq(delivered[1], isImage)[2].image = "pngB"
    /\ SelectSeq(delivered[1], isImage)[2].page = 1
    /\ Len(SelectSeq(delivered[1], isRectangle)) = 2
    /\ SelectSeq(delivered[1], isRectangle)[1].width = 11 * Den
    /\ SelectSeq(delivered[1], isRectangle)[1].page = 2
    /\ SelectSeq(delivered[1], isRectangle)[2].width = 12 * Den
    /\ SelectSeq(delivered[1], isRectangle)[2].page = 1

\* C33: an export draws page by page, in page order: every operation on
\* page p is issued before any operation on a page q > p, whatever the
\* kinds of the annotations.
C33_DrawnInPageOrder ==
    \A k \in 1..Len(downloads) :
        LET drawn == downloads[k].drawn IN
        \A m, n \in 1..Len(drawn) :
            m < n => drawn[m].page <= drawn[n].page

\* the place of a kind in handleDownload
loopOf(o) ==
    CASE isImage(o) -> 1
      [] isText(o) -> 2
      [] isRectangle(o) -> 3

\* C33, as the code has it: an export draws kind by kind, all images, then
\* all texts, then all rectangles, each kind in the order of the store and
\* each operation on the page its annotation names; the operations of one
\* page are so issued as images, texts, rectangles, and the pages of
\* successive operations follow the store, not the page numbers.
C33_DrawnKindByKind ==
    \A k \in 1..Len(downloads) :
        LET d == downloads[k]
            drawn == d.drawn
            onPage(a) == a.page \in 1..Len(d.pages)
            textDue(t) == notBlank(t) /\ onPage(t)
        IN  /\ \A m, n \in 1..Len(drawn) :
                  m < n => loopOf(drawn[m]) <= loopOf(drawn[n])
            /\ d.pc \in {"save", "done"} =>
                  /\ pagesDrawn(drawn, "drawImage")
                       = pagesDue(d.annotations.signatures, Len(d.pages))
                  /\ pagesDrawn(drawn, "drawText")
                       = pagesDue(SelectSeq(d.annotations.texts, notBlank),
                                  Len(d.pages))
                  /\ pagesDrawn(drawn, "drawRectangle")
                       = pagesDue(d.annotations.highlights, Len(d.pages))

\* a delivered file whose first operation is the image of a signature on
\* page 2 and whose later operations are a text, a rectangle and then
\* another rectangle, on pages 1, 2 and 1
C33_Witness ==
    /\ Len(delivered) = 1
    /\ Len(delivered[1]) = 4
    /\ isImage(delivered[1][1]) /\ delivered[1][1].page = 2
    /\ isText(delivered[1][2]) /\ delivered[1][2].page = 1
    /\ isRectangle(delivered[1][3]) /\ delivered[1][3].page = 2
    /\ isRectangle(delivered[1][4]) /\ delivered[1][4].page = 1

---------------------------------------------------------------------------
(* Export runs with the event loop's schedule: a promise awaited by        *)
(* handleDownload (the file's bytes, the parsed document, the fetch of a   *)
(* data URL, the embedded image, the saved bytes) settles, and the         *)
(* continuation of a settled promise is run                                *)

SpecFinish ==
    /\ Init
    /\ [][NextExport]_vars
    /\ WF_vars(DownloadLoad)
    /\ WF_vars(DownloadSignature)
    /\ WF_vars(DownloadRest)
    /\ WF_vars(DownloadSave)

\* C34: every export that is triggered finishes, by success or by failure,
\* and the processing flag, set while it runs, is then false again, so that
\* the download button can trigger a new export; the flag never stays set.
C34_ExportsFinish ==
    /\ isProcessing ~> ~isProcessing
    /\ (pending # {}) ~> (pending = {})
    /\ [](pending = {} => ~isProcessing)
    /\ [](~isProcessing /\ Len(downloads) < MaxExports
             => ENABLED downloadButtonClick)

\* a first export has failed, a second one, triggered after it, has run to
\* its end, and the flag is false
C34_Witness ==
    /\ Len(downloads) = 2
    /\ downloads[1].pc = "failed"
    /\ downloads[2].pc = "done"
    /\ ~isProcessing

---------------------------------------------------------------------------
(* Highlights among the other events: rubber bands, drags and resizes of   *)
(* signatures, zoom, pages, tools, deletes and reset                       *)

FrameSignatureMouseDown ==
    /\ presses < MaxPresses
    /\ \E e \in Points : \E i \in 1..Len(annotations.signatures) :
          signatureMouseDown(e, i)
FrameStartResize ==
    /\ presses < MaxPresses
    /\ \E e \in Points : \E handle \in ResizeHandles :
          \E i \in 1..Len(annotations.signatures) :
              startResize(e, handle, i)

\* a click, as long as the run has created at most MaxViewIds annotations
\* by clicks
FrameClick ==
    \E e \in ExportPoints :
        /\ handleClick(e)
        /\ Len(annotations.signatures) + Len(annotations.texts) < MaxViewIds
FrameSignatureSave == handleSignatureSave("pngA")

NextFrame ==
    \/ ToolChange
    \/ FrameSignatureSave
    \/ Reset
    \/ DocumentLoad
    \/ PreviousPage
    \/ NextPage
    \/ ViewZoomIn
    \/ FrameClick
    \/ MouseDown
    \/ MouseMove
    \/ MouseUp
    \/ FrameSignatureMouseDown
    \/ FrameStartResize
    \/ HighlightClick

SpecFrame == Init /\ [][NextFrame]_vars

\* C35: a committed highlight is never changed: a step leaves the
\* highlights as they are, or appends one (the commit of a rubber band), or
\* removes one by a click on it under the select tool, or empties the store
\* (reset); so x, y, width, height and page of a highlight keep their
\* committed values through every drag, resize, move, zoom, page and tool
\* event for as long as it is in the store.
C35_HighlightsImmutable ==
    [][LET old == annotations.highlights
           new == annotations'.highlights
       IN  \/ new = old
           \/ /\ Len(new) = Len(old) + 1
              /\ SubSeq(new, 1, Len(old)) = old
              /\ commitsHighlight(tempHighlight)
           \/ /\ activeTool = "select"
              /\ \E i \in rendered(old) : new = without(old, i)
           \/ /\ annotations' = EmptyStore
              /\ handleReset]_vars

\* a highlight of 11 x 6 of page 1, in the store while a signature is
\* being dragged on page 2 at another zoom
C35_Witness ==
    /\ Len(annotations.highlights) = 1
    /\ annotations.highlights[1].page = 1
    /\ annotations.highlights[1].width = 11 * Den
    /\ annotations.highlights[1].height = 6 * Den
    /\ currentPage = 2
    /\ scale # InitialScale
    /\ draggingId # NoId
    /\ Len(annotations.signatures) = 1
    /\ annotations.signatures[1].x # 100 * Den

---------------------------------------------------------------------------
(* One gesture on a signature: the tool is chosen and a signature is       *)
(* placed, then a press on the signature or on one of its handles, moves,  *)
(* the release and the click the browser dispatches after the release      *)

\* the steps before the press
ReleaseToolChange == presses = 0 /\ ToolChange
ReleaseSignatureSave == presses = 0 /\ SignatureSave
ReleasePlace == presses = 0 /\ Click
\* the click event after mouseup, which bubbles from the signature to the
\* container: the signature element has no onClick of its own
ReleaseClick ==
    /\ presses > 0
    /\ draggingId = NoId
    /\ resizing = None
    /\ Click

NextRelease ==
    \/ ReleaseToolChange
    \/ ReleaseSignatureSave
    \/ ReleasePlace
    \/ SignatureMouseDown
    \/ StartResize
    \/ MouseMove
    \/ MouseUp
    \/ ReleaseClick

SpecRelease == Init /\ [][NextRelease]_vars

\* C36: a press on a signature or on one of its resize handles, the moves,
\* the release and the click dispatched on the container after the release
\* add no annotation and leave the pending stamp, whichever tool is active:
\* from the press on, every step of the gesture keeps the numbers of
\* signatures, texts and highlights and the pending stamp.
C36_GestureAddsNothing ==
    [][presses' > 0 =>
          /\ Len(annotations'.signatures) = Len(annotations.signatures)
          /\ Len(annotations'.texts) = Len(annotations.texts)
          /\ Len(annotations'.highlights) = Len(annotations.highlights)
          /\ signatureToPlace' = signatureToPlace]_vars

---------------------------------------------------------------------------
(* Claims about the has-content flag of the rasterizer *)

\* C37: the has-content flag is true only while the surface holds a
\* painted pixel, after any sequence of strokes, clears, generated text,
\* tab changes, colour changes and re-setups of the surface; it is never
\* left true over a surface that has been emptied.
C37_FlagOnlyOverContent ==
    (mounted /\ hasContent) => canvas.marks # {}

---------------------------------------------------------------------------
(* An export in flight while the store changes: placements, drags and      *)
(* deletes of signatures and reset between the steps of handleDownload     *)

MaxSnapshotIds == 1

SnapshotClick ==
    \E e \in ExportPoints : handleClick(e) /\ nextId' <= MaxSnapshotIds + 1
SnapshotSignatureSave == handleSignatureSave("pngA")

NextSnapshot ==
    \/ ToolChange
    \/ SnapshotSignatureSave
    \/ Reset
    \/ SnapshotClick
    \/ SignatureMouseDown
    \/ MouseMove
    \/ MouseUp
    \/ SignatureDeleteClick
    \/ BakeButtonClick
    \/ DownloadLoad
    \/ DownloadSignature
    \/ DownloadRest
    \/ DownloadSave
    \/ DownloadFail

SpecSnapshot == Init /\ [][NextSnapshot]_vars

\* the images an export of the store draws over the given pages
imagesDue(store, pages) ==
    LET onPage(s) == hasPage(pages, s)
        due == SelectSeq(store.signatures, onPage)
    IN  [i \in 1..Len(due) |->
            [image |-> due[i].dataUrl, page |-> due[i].page,
             x |-> due[i].x,
             y |-> PageHeight(due[i].page) * Den - due[i].y - due[i].height]]

imagesOf(drawn) ==
    LET images == SelectSeq(drawn, isImage)
    IN  [i \in 1..Len(images) |->
            [image |-> images[i].image, page |-> images[i].page,
             x |-> images[i].x, y |-> images[i].y]]

\* a step of a call of handleDownload after its start
exportStep == Len(downloads') = Len(downloads) /\ downloads' # downloads

\* C38: an export bakes the store as it was when it was triggered.  The
\* call keeps the store of its trigger whatever is added, moved, deleted or
\* reset while the processing flag is set, what it has drawn when its loops
\* are through is what that store asks for, and no step of the export
\* changes the store, the pending stamp, the tool, the page or the zoom.
C38_ExportBakesSnapshot ==
    /\ [](\A k \in calls({"save", "done"}) :
            imagesOf(downloads[k].drawn)
               = imagesDue(downloads[k].annotations, downloads[k].pages))
    /\ [][/\ Len(downloads') = Len(downloads) + 1 =>
                downloads'[Len(downloads')].annotations = annotations
          /\ \A k \in 1..Len(downloads) :
                downloads'[k].annotations = downloads[k].annotations
          /\ (exportStep \/ Len(downloads') = Len(downloads) + 1) =>
                UNCHANGED <<annotations, signatureToPlace, activeTool,
                            currentPage, scale>>]_vars

\* an export in flight, its loops through, with the image of the signature
\* as it was placed, while the store has been emptied since
C38_Witness ==
    /\ Len(downloads) = 1
    /\ downloads[1].pc = "save"
    /\ isProcessing
    /\ Len(downloads[1].drawn) = 1
    /\ downloads[1].drawn[1].x = 100 * Den
    /\ annotations.signatures = << >>

===========================================================================
